---- MODULE Spec2Model ----
(***************************************************************************)
(* ts-opentelemetry-weaver: a compile-time transformer that rewrites class *)
(* methods so that each invocation runs inside a tracing span.             *)
(*                                                                         *)
(* The specifications of this module share its variables:                  *)
(*   SpecRun    one invocation of a method rewritten by wrapMethodWithSpan *)
(*              (the code the transformer emits, executed step by step);   *)
(*   SpecVisit  the traversal of one source file (ast-visitor.ts);         *)
(*   SpecRepeat the transformer applied again to its own output;           *)
(*   SpecFiles  two files transformed under one configuration;             *)
(*   SpecMatch  the eligibility predicates of config-loader.ts;            *)
(*   SpecGlob   the glob patterns of config-loader.ts;                     *)
(*   SpecConfig loadConfig and validateConfig;                             *)
(*   SpecProxy  one method call through the proxy of traceService.ts;      *)
(*   SpecUtil   safeStringify, truncateString and recordError of utils/.   *)
(***************************************************************************)
EXTENDS Integers, Sequences, FiniteSets, TLC

VARIABLES
    \* ---- SpecRun: one invocation of a rewritten method
    method,      \* the original method: [shape, body]
    pc,          \* control point of the emitted wrapper
    ip,          \* next statement of the emitted try block
    innerIp,     \* next statement of the inner generator (delegating shapes)
    detached,    \* the running generator is the object the method returned
    err,         \* the error bound by the catch clause
    completion,  \* completion record carried through catch / finally
    outcome,     \* what the caller of the rewritten method observes
    received,    \* elements the consumer of the rewritten method received
    leaked,      \* elements produced by a generator object nobody iterates as the method
    aborted,     \* the consumer called return() on the iterator
    events,      \* span and forwarding events of this invocation, in order
    recorded,    \* exceptions passed to span.recordException
    \* ---- shared by SpecMatch and SpecVisit
    config,      \* the TracingConfig in force
    \* ---- SpecMatch: one call of an eligibility predicate
    fileName,    \* argument of shouldTransformFile
    methodName,  \* argument of shouldInstrumentMethod
    matchPc,     \* "file" | "method" before the call, "done" after it
    matchResult, \* [threw, value]: what the call returned, or that it threw
    \* ---- SpecVisit: the traversal of one source file
    sourceFile,            \* the input tree: [fileName, statements]
    transformContext,      \* [sourceFile, hasTracerImport, className]
    visitPc,               \* control point of the traversal
    stmtIdx,               \* statement of the file being visited
    memberIdx,             \* member of the class being visited
    previousClassName,     \* the local of visitClassDeclaration
    newMembers,            \* members of the current class visited so far
    transformedStatements, \* statements visited so far
    result,                \* statements of the tree handed back
    \* ---- SpecRepeat and SpecFiles: the driver that calls the transformer
    input,                 \* the tree first handed to the transformer
    pass,                  \* number of the pass over that tree, from 1
    suspended,             \* the traversal of another file, between two of its steps
    \* ---- SpecConfig: one call of loadConfig
    userConfig,            \* argument of loadConfig
    loadPc,                \* "call" before the call, "returned" | "threw" after it
    loadResult,            \* the merged configuration
    logged,                \* messages passed to logger.warn / logger.error
    loggerLevel,           \* the logLevel of the global logger
    \* ---- SpecUtil: one call of a function of utils/
    utilArgs,              \* the function called and its arguments
    utilPc,                \* "call" before the call, "returned" after it
    utilResult             \* the strings the call produced

runVars == <<method, pc, ip, innerIp, detached, err, completion, outcome,
             received, leaked, aborted, events, recorded>>

matchVars == <<fileName, methodName, matchPc, matchResult>>

visitVars == <<sourceFile, transformContext, visitPc, stmtIdx, memberIdx,
               previousClassName, newMembers, transformedStatements, result>>

driverVars == <<input, pass, suspended>>

loadVars == <<userConfig, loadPc, loadResult, logged, loggerLevel>>

utilVars == <<utilArgs, utilPc, utilResult>>

vars == <<runVars, config, matchVars, visitVars, driverVars, loadVars, utilVars>>

NotRun == <<config, matchVars, visitVars, driverVars, loadVars, utilVars>>
NotMatch == <<runVars, visitVars, driverVars, loadVars, utilVars>>
NotVisit == <<runVars, matchVars, driverVars, loadVars, utilVars>>
NotDriver == <<runVars, matchVars, loadVars, utilVars>>
NotLoad == <<runVars, config, matchVars, visitVars, driverVars, utilVars>>
NotUtil == <<runVars, config, matchVars, visitVars, driverVars, loadVars>>

(***************************************************************************)
(* Bounds.                                                                 *)
(***************************************************************************)
MaxBody == 3

(***************************************************************************)
(* Statement-level shapes of an original method body.  The transformer     *)
(* looks at statements only (ts.isReturnStatement on the top-level         *)
(* statements), so a body is a sequence of:                                *)
(*   expr           a statement that completes normally                    *)
(*   throw e        a statement that raises e                              *)
(*   return v       a top-level return (x: "value" | "throws" | "none";    *)
(*                  in an async method also "fulfils" | "rejects": the     *)
(*                  expression is a pending promise, returned without      *)
(*                  await, that later fulfils with v or rejects with v)    *)
(*   if             `if (c) { return v; }`, c either true or false         *)
(*   yield v        (generator shapes only)                                *)
(***************************************************************************)
Values == {"a", "b"}
Errors == {"E1", "E2"}
Undefined == "undefined"
GeneratorObject == "GeneratorObject"

Stmt(k, a, x) == [k |-> k, a |-> a, x |-> x]

PlainStmts ==
    {Stmt("expr", "-", "-"), Stmt("throw", "E1", "-"),
     Stmt("return", "a", "value"), Stmt("return", "E2", "throws"),
     Stmt("return", Undefined, "none"),
     Stmt("if", "b", "taken"), Stmt("if", "b", "skipped")}

AsyncStmts ==
    PlainStmts \cup {Stmt("return", "a", "fulfils"), Stmt("return", "E2", "rejects")}

GeneratorStmts == PlainStmts \cup {Stmt("yield", v, "-") : v \in Values}

Shapes == {"plain", "async", "generator", "asyncGenerator"}

IsGeneratorShape(s) == s \in {"generator", "asyncGenerator"}
IsAsyncShape(s) == s \in {"async", "asyncGenerator"}

SeqsUpTo(S, n) == UNION {[1..m -> S] : m \in 0..n}

Methods ==
    {[shape |-> "plain", body |-> b] : b \in SeqsUpTo(PlainStmts, MaxBody)}
    \cup
    {[shape |-> "async", body |-> b] : b \in SeqsUpTo(AsyncStmts, MaxBody)}
    \cup
    {[shape |-> s, body |-> b] :
        s \in {"generator", "asyncGenerator"}, b \in SeqsUpTo(GeneratorStmts, MaxBody)}

(***************************************************************************)
(* span-injector.ts: the code the transformer emits.                       *)
(***************************************************************************)
createSpanSetStatusOk == Stmt("setStatusOk", "-", "-")

RECURSIVE RewriteReturns(_)
\* the for-loop of createTryCatchBlock: span.setStatus(OK) is pushed before
\* every statement of the body that is itself a return statement
RewriteReturns(stmts) ==
    IF stmts = <<>> THEN <<>>
    ELSE IF Head(stmts).k = "return"
         THEN <<createSpanSetStatusOk, Head(stmts)>> \o RewriteReturns(Tail(stmts))
         ELSE <<Head(stmts)>> \o RewriteReturns(Tail(stmts))

\* variant: the rewritten return statements lose their expression
createTryCatchBlock_DropsReturnValue(originalBody, isAsync) ==
    LET hasReturn == \E i \in 1..Len(originalBody) : originalBody[i].k = "return"
        bodyStatements == RewriteReturns(originalBody)
        dropped == [i \in DOMAIN bodyStatements |->
                       IF bodyStatements[i].k = "return" /\ bodyStatements[i].x = "value"
                       THEN Stmt("return", Undefined, "none")
                       ELSE bodyStatements[i]]
    IN  [tryBlock   |-> IF hasReturn THEN dropped
                        ELSE Append(dropped, createSpanSetStatusOk),
         hasCatch   |-> TRUE,
         hasFinally |-> TRUE]

createTryCatchBlock(originalBody, isAsync) ==
    LET hasReturn == \E i \in 1..Len(originalBody) : originalBody[i].k = "return"
        bodyStatements == RewriteReturns(originalBody)
    IN  [tryBlock   |-> IF hasReturn THEN bodyStatements
                        ELSE Append(bodyStatements, createSpanSetStatusOk),
         hasCatch   |-> TRUE,
         hasFinally |-> TRUE]

createSyncGeneratorTryCatchBlock(originalStatements) ==
    [tryBlock   |-> <<Stmt("yieldStar", "-", "-"), createSpanSetStatusOk>>,
     hasCatch   |-> TRUE,
     hasFinally |-> FALSE]

createAsyncSpanWrapper(m) ==
    [wrapper |-> "startActiveSpan", callback |-> "asyncArrow", awaited |-> TRUE,
     innerBody |-> <<>>, block |-> createTryCatchBlock(m.body, TRUE)]

createSyncSpanWrapper(m) ==
    [wrapper |-> "startActiveSpan", callback |-> "arrow", awaited |-> FALSE,
     innerBody |-> <<>>, block |-> createTryCatchBlock(m.body, FALSE)]

\* variant: the status is set before the elements are forwarded
createAsyncGeneratorSpanWrapper_OkBeforeLoop(m) ==
    [wrapper |-> "startSpan", callback |-> "none", awaited |-> FALSE,
     innerBody |-> m.body,
     block |-> [tryBlock   |-> <<createSpanSetStatusOk, Stmt("forAwaitYield", "-", "-")>>,
                hasCatch   |-> TRUE,
                hasFinally |-> TRUE]]

createAsyncGeneratorSpanWrapper(m) ==
    [wrapper |-> "startSpan", callback |-> "none", awaited |-> FALSE,
     innerBody |-> m.body,
     block |-> [tryBlock   |-> <<Stmt("forAwaitYield", "-", "-"), createSpanSetStatusOk>>,
                hasCatch   |-> TRUE,
                hasFinally |-> TRUE]]

createSyncGeneratorSpanWrapper(m) ==
    [wrapper |-> "startActiveSpan", callback |-> "generatorFunction", awaited |-> FALSE,
     innerBody |-> m.body, block |-> createSyncGeneratorTryCatchBlock(m.body)]

\* the dispatch of wrapMethodWithSpan on the shape of the method
newBody(m) ==
    LET isAsync == IsAsyncShape(m.shape)
        isGenerator == IsGeneratorShape(m.shape)
    IN  IF isGenerator /\ isAsync THEN createAsyncGeneratorSpanWrapper(m)
        ELSE IF isGenerator THEN createSyncGeneratorSpanWrapper(m)
        ELSE IF isAsync THEN createAsyncSpanWrapper(m)
        ELSE createSyncSpanWrapper(m)

Rewritten == newBody(method)
TryBlock == Rewritten.block.tryBlock


(***************************************************************************)
(* Execution of the emitted code.  tracer.startActiveSpan(name, opts, fn)  *)
(* starts a span, calls fn(span) and returns what fn returns;              *)
(* tracer.startSpan(name, opts) starts a span.                             *)
(***************************************************************************)
Event(e, v) == [e |-> e, v |-> v]
Completion(kind, val) == [kind |-> kind, val |-> val]
NoCompletion == Completion("none", "-")

RunInit ==
    /\ method \in Methods
    /\ pc = "idle"
    /\ ip = 1
    /\ innerIp = 1
    /\ detached = FALSE
    /\ err = "-"
    /\ completion = NoCompletion
    /\ outcome = NoCompletion
    /\ received = <<>>
    /\ leaked = <<>>
    /\ aborted = FALSE
    /\ events = <<>>
    /\ recorded = <<>>
    /\ config = <<>>

\* the values the variables of a specification hold while another one runs
RunIdle ==
    /\ method = [shape |-> "plain", body |-> <<>>]
    /\ pc = "unused"
    /\ ip = 1
    /\ innerIp = 1
    /\ detached = FALSE
    /\ err = "-"
    /\ completion = NoCompletion
    /\ outcome = NoCompletion
    /\ received = <<>>
    /\ leaked = <<>>
    /\ aborted = FALSE
    /\ events = <<>>
    /\ recorded = <<>>

MatchIdle ==
    /\ fileName = <<>>
    /\ methodName = <<>>
    /\ matchPc = "unused"
    /\ matchResult = [threw |-> FALSE, value |-> FALSE]

VisitIdle ==
    /\ sourceFile = [fileName |-> <<>>, statements |-> <<>>]
    /\ transformContext = [sourceFile |-> <<>>, hasTracerImport |-> FALSE, className |-> <<>>]
    /\ visitPc = "unused"
    /\ stmtIdx = 1
    /\ memberIdx = 1
    /\ previousClassName = <<>>
    /\ newMembers = <<>>
    /\ transformedStatements = <<>>
    /\ result = <<>>

DriverIdle ==
    /\ input = [fileName |-> <<>>, statements |-> <<>>]
    /\ pass = 1
    /\ suspended = <<>>

LoadIdle ==
    /\ userConfig = <<>>
    /\ loadPc = "unused"
    /\ loadResult = <<>>
    /\ logged = <<>>
    /\ loggerLevel = <<>>

UtilIdle ==
    /\ utilArgs = <<>>
    /\ utilPc = "unused"
    /\ utilResult = <<>>

\* the generator or function ran to its end with completion c; when an
\* async callback returns a pending promise, the promise of the call adopts
\* it and the caller observes nothing until it settles
Settle(c) ==
    IF detached
    THEN pc' = "detachedDone" /\ outcome' = outcome
    ELSE IF c.kind \in {"fulfils", "rejects"}
    THEN pc' = "adopted" /\ outcome' = outcome
    ELSE pc' = "done" /\ outcome' = c

\* control leaves the try statement with completion c: through the finally
\* block when the emitted try statement has one
Exit(c) ==
    /\ completion' = c
    /\ IF Rewritten.block.hasFinally
       THEN pc' = "finally" /\ outcome' = outcome
       ELSE Settle(c)

\* a plain or async rewritten method is called:
\*   return [await] tracer.startActiveSpan(spanName, {...}, [async] (span) => { try ... })
Call ==
    /\ pc = "idle"
    /\ ~IsGeneratorShape(method.shape)
    /\ Rewritten.wrapper = "startActiveSpan"
    /\ events' = Append(events, Event("start", "-"))
    /\ pc' = "try"
    /\ ip' = 1
    /\ UNCHANGED <<method, innerIp, detached, err, completion, outcome,
                   received, leaked, aborted, recorded>>
    /\ UNCHANGED NotRun

\* first next() on a rewritten async generator method:
\*   const span = tracer.startSpan(...); try { ... }
ConsumerNextStartSpan ==
    /\ pc = "idle"
    /\ IsGeneratorShape(method.shape)
    /\ Rewritten.wrapper = "startSpan"
    /\ events' = Append(events, Event("start", "-"))
    /\ pc' = "try"
    /\ ip' = 1
    /\ UNCHANGED <<method, innerIp, detached, err, completion, outcome,
                   received, leaked, aborted, recorded>>
    /\ UNCHANGED NotRun

\* first next() on a rewritten sync generator method, whose body is
\*   return tracer.startActiveSpan(spanName, {...}, function* (span) { try ... })
\* startActiveSpan starts the span and calls the generator function, which
\* returns a suspended generator object without running its body; the
\* method returns that object, so the iteration is done at once
ConsumerNextActiveSpanGenerator ==
    /\ pc = "idle"
    /\ IsGeneratorShape(method.shape)
    /\ Rewritten.wrapper = "startActiveSpan"
    /\ Rewritten.callback = "generatorFunction"
    /\ events' = Append(events, Event("start", "-"))
    /\ outcome' = Completion("return", GeneratorObject)
    /\ pc' = "returned"
    /\ UNCHANGED <<method, ip, innerIp, detached, err, completion,
                   received, leaked, aborted, recorded>>
    /\ UNCHANGED NotRun

\* the generator object left as the return value is iterated by hand
IterateReturnedGenerator ==
    /\ pc = "returned"
    /\ detached' = TRUE
    /\ pc' = "try"
    /\ ip' = 1
    /\ UNCHANGED <<method, innerIp, err, completion, outcome,
                   received, leaked, aborted, events, recorded>>
    /\ UNCHANGED NotRun

\* the consumer asks for the next element
ConsumerNextResume ==
    /\ pc = "suspended"
    /\ pc' = "try"
    /\ UNCHANGED <<method, ip, innerIp, detached, err, completion, outcome,
                   received, leaked, aborted, events, recorded>>
    /\ UNCHANGED NotRun

\* the consumer aborts the iteration: return() at the suspended yield
ConsumerReturn ==
    /\ pc = "suspended"
    /\ aborted' = TRUE
    /\ Exit(Completion("return", Undefined))
    /\ UNCHANGED <<method, ip, innerIp, detached, err,
                   received, leaked, events, recorded>>
    /\ UNCHANGED NotRun

AtStmt(k) == pc = "try" /\ ip <= Len(TryBlock) /\ TryBlock[ip].k = k

ExecExpr ==
    /\ AtStmt("expr")
    /\ ip' = ip + 1
    /\ UNCHANGED <<method, pc, innerIp, detached, err, completion, outcome,
                   received, leaked, aborted, events, recorded>>
    /\ UNCHANGED NotRun

ExecIf ==
    /\ AtStmt("if")
    /\ IF TryBlock[ip].x = "taken"
       THEN Exit(Completion("return", TryBlock[ip].a)) /\ ip' = ip
       ELSE ip' = ip + 1 /\ UNCHANGED <<pc, completion, outcome>>
    /\ UNCHANGED <<method, innerIp, detached, err,
                   received, leaked, aborted, events, recorded>>
    /\ UNCHANGED NotRun

\* span.setStatus({ code: SpanStatusCode.OK })
ExecSetStatusOk ==
    /\ AtStmt("setStatusOk")
    /\ events' = Append(events, Event("ok", "-"))
    /\ ip' = ip + 1
    /\ UNCHANGED <<method, pc, innerIp, detached, err, completion, outcome,
                   received, leaked, aborted, recorded>>
    /\ UNCHANGED NotRun

ExecReturn ==
    /\ AtStmt("return")
    /\ IF TryBlock[ip].x = "throws"
       THEN pc' = "catch" /\ err' = TryBlock[ip].a /\ UNCHANGED <<completion, outcome>>
       ELSE IF TryBlock[ip].x \in {"fulfils", "rejects"}
       THEN Exit(Completion(TryBlock[ip].x, TryBlock[ip].a)) /\ err' = err
       ELSE Exit(Completion("return", TryBlock[ip].a)) /\ err' = err
    /\ UNCHANGED <<method, ip, innerIp, detached,
                   received, leaked, aborted, events, recorded>>
    /\ UNCHANGED NotRun

ExecThrow ==
    /\ AtStmt("throw")
    /\ pc' = "catch"
    /\ err' = TryBlock[ip].a
    /\ UNCHANGED <<method, ip, innerIp, detached, completion, outcome,
                   received, leaked, aborted, events, recorded>>
    /\ UNCHANGED NotRun

\* the try block ends without a return
FallOffEnd ==
    /\ pc = "try"
    /\ ip > Len(TryBlock)
    /\ Exit(Completion("return", Undefined))
    /\ UNCHANGED <<method, ip, innerIp, detached, err,
                   received, leaked, aborted, events, recorded>>
    /\ UNCHANGED NotRun

\* `yield* (function* () { original })()` and
\* `for await (const item of innerGenerator) { yield item; }`
Delegating == AtStmt("yieldStar") \/ AtStmt("forAwaitYield")
InnerBody == Rewritten.innerBody
InnerAt(k) == Delegating /\ innerIp <= Len(InnerBody) /\ InnerBody[innerIp].k = k

\* the inner generator runs a statement that neither yields nor completes it
InnerStep ==
    /\ InnerAt("expr") \/ (InnerAt("if") /\ InnerBody[innerIp].x = "skipped")
    /\ innerIp' = innerIp + 1
    /\ UNCHANGED <<method, pc, ip, detached, err, completion, outcome,
                   received, leaked, aborted, events, recorded>>
    /\ UNCHANGED NotRun

\* the inner generator yields an element and the wrapper yields it on
InnerYield ==
    /\ InnerAt("yield")
    /\ innerIp' = innerIp + 1
    /\ IF detached
       THEN leaked' = Append(leaked, InnerBody[innerIp].a) /\ received' = received
       ELSE received' = Append(received, InnerBody[innerIp].a) /\ leaked' = leaked
    /\ events' = Append(events, Event("forward", InnerBody[innerIp].a))
    /\ pc' = "suspended"
    /\ UNCHANGED <<method, ip, detached, err, completion, outcome,
                   aborted, recorded>>
    /\ UNCHANGED NotRun

\* the inner generator completes: the delegation is over
InnerDone ==
    /\ Delegating
    /\ \/ innerIp > Len(InnerBody)
       \/ InnerAt("if") /\ InnerBody[innerIp].x = "taken"
       \/ InnerAt("return") /\ InnerBody[innerIp].x # "throws"
    /\ ip' = ip + 1
    /\ UNCHANGED <<method, pc, innerIp, detached, err, completion, outcome,
                   received, leaked, aborted, events, recorded>>
    /\ UNCHANGED NotRun

\* the inner generator raises
InnerThrow ==
    /\ InnerAt("throw") \/ (InnerAt("return") /\ InnerBody[innerIp].x = "throws")
    /\ pc' = "catch"
    /\ err' = InnerBody[innerIp].a
    /\ UNCHANGED <<method, ip, innerIp, detached, completion, outcome,
                   received, leaked, aborted, events, recorded>>
    /\ UNCHANGED NotRun

\* catch (error) { span.recordException(error);
\*                 span.setStatus({ code: SpanStatusCode.ERROR }); throw error; }
CatchClause ==
    /\ pc = "catch"
    /\ Rewritten.block.hasCatch
    /\ recorded' = Append(recorded, err)
    /\ events' = events \o <<Event("recordException", err), Event("error", "-")>>
    /\ Exit(Completion("throw", err))
    /\ UNCHANGED <<method, ip, innerIp, detached, err, received, leaked, aborted>>
    /\ UNCHANGED NotRun

\* finally { span.end(); }
FinallyBlock ==
    /\ pc = "finally"
    /\ events' = Append(events, Event("end", "-"))
    /\ completion' = completion
    /\ Settle(completion)
    /\ UNCHANGED <<method, ip, innerIp, detached, err,
                   received, leaked, aborted, recorded>>
    /\ UNCHANGED NotRun

\* the promise the async callback returned settles, and with it the
\* promise of the call: no code of the wrapper runs
PromiseSettles ==
    /\ pc = "adopted"
    /\ events' = Append(events, Event("settled", completion.val))
    /\ outcome' = IF completion.kind = "fulfils"
                  THEN Completion("return", completion.val)
                  ELSE Completion("throw", completion.val)
    /\ pc' = "done"
    /\ UNCHANGED <<method, ip, innerIp, detached, err, completion,
                   received, leaked, aborted, recorded>>
    /\ UNCHANGED NotRun

RunNext ==
    \/ Call
    \/ ConsumerNextStartSpan
    \/ ConsumerNextActiveSpanGenerator
    \/ IterateReturnedGenerator
    \/ ConsumerNextResume
    \/ ConsumerReturn
    \/ ExecExpr
    \/ ExecIf
    \/ ExecSetStatusOk
    \/ ExecReturn
    \/ ExecThrow
    \/ FallOffEnd
    \/ InnerStep
    \/ InnerYield
    \/ InnerDone
    \/ InnerThrow
    \/ CatchClause
    \/ FinallyBlock
    \/ PromiseSettles

InitRun == RunInit /\ MatchIdle /\ VisitIdle /\ DriverIdle /\ LoadIdle /\ UtilIdle

SpecRun == InitRun /\ [][RunNext]_vars


(***************************************************************************)
(* Reference meaning of an original (unrewritten) body: what its caller    *)
(* observes and, for the generator shapes, what it yields when drained.    *)
(***************************************************************************)
RECURSIVE OrigOutcome(_)
OrigOutcome(body) ==
    IF body = <<>> THEN Completion("return", Undefined)
    ELSE LET s == Head(body)
         IN  CASE s.k = "throw" -> Completion("throw", s.a)
               [] s.k = "return" /\ s.x \in {"throws", "rejects"} -> Completion("throw", s.a)
               [] s.k = "return" /\ s.x \notin {"throws", "rejects"} -> Completion("return", s.a)
               [] s.k = "if" /\ s.x = "taken" -> Completion("return", s.a)
               [] OTHER -> OrigOutcome(Tail(body))

RECURSIVE OrigYields(_)
OrigYields(body) ==
    IF body = <<>> THEN <<>>
    ELSE LET s == Head(body)
         IN  CASE s.k = "yield" -> <<s.a>> \o OrigYields(Tail(body))
               [] s.k \in {"throw", "return"} -> <<>>
               [] s.k = "if" /\ s.x = "taken" -> <<>>
               [] OTHER -> OrigYields(Tail(body))

Count(e) == Cardinality({i \in DOMAIN events : events[i].e = e})
IsPrefix(s, t) == Len(s) <= Len(t) /\ SubSeq(t, 1, Len(s)) = s
\* the invocation is over for its caller: the call returned or threw, the
\* promise settled, or the iterator reported done
Finished == pc \in {"done", "returned", "detachedDone"}

\* C1: every invocation that starts a span ends it exactly once, on every
\* exit path of every shape (return, error, exhaustion, abort).
C1_SpanEndedExactlyOnce ==
    /\ Count("end") <= 1
    /\ (Finished /\ Count("start") >= 1) => Count("end") = 1

\* C2: a rewritten sync generator whose body yields a finite sequence and
\* returns normally hands the consumer exactly that sequence, and the span
\* is marked OK only once the consumer has found the iteration complete.
C2_GeneratorForwarding ==
    (method.shape = "generator" /\ OrigOutcome(method.body).kind = "return")
        => /\ Count("ok") >= 1 => received = OrigYields(method.body)
           /\ (Finished /\ ~aborted)
                 => received = OrigYields(method.body) /\ Count("ok") = 1

\* C3: when the original body raises E, the caller observes E itself, E is
\* recorded with ERROR status on the one span, and the span is ended once.
C3_ErrorRoundTrip ==
    (Finished /\ ~aborted /\ OrigOutcome(method.body).kind = "throw")
        => /\ outcome = OrigOutcome(method.body)
           /\ recorded = <<OrigOutcome(method.body).val>>
           /\ Count("error") = 1
           /\ Count("start") = 1
           /\ Count("end") = 1

\* C4: in a rewritten plain or async method every exit of the original body
\* that does not raise (fall-through, top-level return, nested early return)
\* marks the span OK exactly once, before the span is ended.
C4_OkOncePerSuccessfulExit ==
    (method.shape \in {"plain", "async"} /\ pc = "done"
        /\ OrigOutcome(method.body).kind = "return")
        => /\ Count("ok") = 1
           /\ \E i, j \in DOMAIN events :
                 i < j /\ events[i].e = "ok" /\ events[j].e = "end"

\* C5: a rewritten plain method returns what the original body returns (or
\* throws what it throws); a rewritten async method resolves to the same
\* value or rejects with the same reason.
C5_CallerObservesOriginalOutcome ==
    (method.shape \in {"plain", "async"} /\ pc = "done")
        => outcome = OrigOutcome(method.body)

C5_Witness ==
    /\ method.shape = "async"
    /\ pc = "done"
    /\ outcome = Completion("return", "a")
    /\ Len(method.body) >= 2

\* C24: in no invocation of a rewritten plain or async method is the span
\* marked both OK and ERROR: when the invocation ends by raising, also when
\* the error is raised by the expression of a return statement, mark-OK
\* was never applied to its span.
C24_NeverBothOkAndError ==
    method.shape \in {"plain", "async"} =>
        /\ ~(Count("ok") >= 1 /\ Count("error") >= 1)
        /\ (pc = "done" /\ outcome.kind = "throw") => Count("ok") = 0

\* C25: for a rewritten async method the span is ended only after the
\* asynchronous result of the original body has settled: when the body
\* returns a promise without awaiting it, span end does not precede the
\* settlement of that promise, and a rejection of that promise is recorded
\* on the span with ERROR status.
C25_SpanEndsAfterResultSettles ==
    method.shape = "async" =>
        /\ \A i, j \in DOMAIN events :
               (events[i].e = "end" /\ events[j].e = "settled") => j < i
        /\ pc = "adopted" => Count("end") = 0
        /\ (pc = "done" /\ completion.kind = "rejects")
               => recorded = <<completion.val>> /\ Count("error") = 1

Forwarded == SelectSeq(events, LAMBDA ev : ev.e = "forward")

\* C6: for a rewritten async generator the span is started first, the
\* elements of the original body are forwarded unchanged and in order, one
\* per consumer request, OK is marked after exhaustion, the span is ended
\* last, and nothing is forwarded after the end.
C6_AsyncGeneratorOrder ==
    method.shape = "asyncGenerator" =>
        /\ events # <<>> => events[1].e = "start"
        /\ Count("start") <= 1
        /\ \A i \in DOMAIN events : events[i].e = "end" => i = Len(events)
        /\ [i \in DOMAIN Forwarded |-> Forwarded[i].v] = received
        /\ IsPrefix(received, OrigYields(method.body))
        /\ \A i \in DOMAIN events : events[i].e = "ok" =>
              /\ received = OrigYields(method.body)
              /\ \A j \in DOMAIN events : events[j].e = "forward" => j < i
        /\ (pc = "done" /\ ~aborted /\ OrigOutcome(method.body).kind = "return")
              => events = <<Event("start", "-")>> \o Forwarded
                            \o <<Event("ok", "-"), Event("end", "-")>>

C6_Witness ==
    /\ method.shape = "asyncGenerator"
    /\ pc = "done"
    /\ ~aborted
    /\ received = <<"a", "b">>
    /\ Count("ok") = 1
    /\ Count("end") = 1


(***************************************************************************)
(* config-loader.ts: glob patterns.  A string is a sequence of one-        *)
(* character strings; a regular expression is built as text, exactly as    *)
(* the code builds it, and then read the way `new RegExp(text)` reads it.  *)
(***************************************************************************)
StartsWith(s, prefix) ==
    Len(prefix) <= Len(s) /\ SubSeq(s, 1, Len(prefix)) = prefix

Drop(s, n) == SubSeq(s, n + 1, Len(s))

Includes(s, c) == \E i \in DOMAIN s : s[i] = c

RECURSIVE ReplaceAll(_, _, _)
\* String.prototype.replace with a global pattern that matches the literal
\* text `from`: leftmost, non-overlapping occurrences become `to`
ReplaceAll(s, from, to) ==
    IF s = <<>> THEN <<>>
    ELSE IF StartsWith(s, from) THEN to \o ReplaceAll(Drop(s, Len(from)), from, to)
    ELSE <<Head(s)>> \o ReplaceAll(Tail(s), from, to)

\* the character class of /[.+^${}()|[\]\\]/g
RegexSpecialChars == {".", "+", "^", "$", "{", "}", "(", ")", "|", "[", "]", "\\"}

RECURSIVE EscapeSpecial(_)
\* .replace(/[.+^${}()|[\]\\]/g, '\\$&')
EscapeSpecial(s) ==
    IF s = <<>> THEN <<>>
    ELSE (IF Head(s) \in RegexSpecialChars THEN <<"\\", Head(s)>> ELSE <<Head(s)>>)
         \o EscapeSpecial(Tail(s))

DoubleStarPlaceholder ==
    <<"_", "_", "D", "O", "U", "B", "L", "E", "_", "S", "T", "A", "R", "_", "_">>

\* variant: a leading `**/` is not made optional
GlobRegexSource_LeadingKept(pattern) ==
    LET escaped == EscapeSpecial(pattern)
        placed  == ReplaceAll(escaped, <<"*", "*">>, DoubleStarPlaceholder)
        single  == ReplaceAll(placed, <<"*">>, <<"[", "^", "/", "]", "*">>)
        double  == ReplaceAll(single, DoubleStarPlaceholder, <<".", "*">>)
    IN  <<"^">> \o double \o <<"$">>

\* the source text of the RegExp built by createGlobRegex
GlobRegexSource(pattern) ==
    LET escaped == EscapeSpecial(pattern)
        placed  == ReplaceAll(escaped, <<"*", "*">>, DoubleStarPlaceholder)
        single  == ReplaceAll(placed, <<"*">>, <<"[", "^", "/", "]", "*">>)
        double  == ReplaceAll(single, DoubleStarPlaceholder, <<".", "*">>)
        leading == IF StartsWith(pattern, <<"*", "*", "/">>)
                      /\ StartsWith(double, <<".", "*", "/">>)
                   THEN <<"(", ".", "*", "/", ")", "?">> \o Drop(double, 3)
                   ELSE double
    IN  <<"^">> \o leading \o <<"$">>

\* variant: `?` is left in the text, where it is a quantifier
MethodGlobRegexSource_QuestionKept(pattern) ==
    LET escaped == EscapeSpecial(pattern)
        star    == ReplaceAll(escaped, <<"*">>, <<".", "*">>)
    IN  <<"^">> \o star \o <<"$">>

\* the source text of the RegExp built by createMethodGlobRegex
MethodGlobRegexSource(pattern) ==
    LET escaped == EscapeSpecial(pattern)
        star    == ReplaceAll(escaped, <<"*">>, <<".", "*">>)
        any     == ReplaceAll(star, <<"?">>, <<".">>)
    IN  <<"^">> \o any \o <<"$">>

(***************************************************************************)
(* `new RegExp(text)` for the texts the two builders can produce: an       *)
(* anchored sequence of atoms, each with an optional quantifier.  Atoms:   *)
(* an escaped or ordinary character, `.`, `[^/]`, and the group `(.*/)`.   *)
(* Quantifiers: `*` and `?`, each optionally followed by a lazy `?`.  A    *)
(* quantifier with nothing to repeat is a SyntaxError.                     *)
(***************************************************************************)
Atom(kind, c) == [kind |-> kind, c |-> c]
Token(atom, q) == [atom |-> atom, q |-> q]
SyntaxError == [ok |-> FALSE, tokens |-> <<>>]

\* the atom at the head of text t and the number of characters it takes
\* (0 when no atom starts here)
AtomAt(t) ==
    IF t = <<>> THEN [n |-> 0, atom |-> Atom("none", "-")]
    ELSE IF Head(t) = "\\" /\ Len(t) >= 2 THEN [n |-> 2, atom |-> Atom("lit", t[2])]
    ELSE IF StartsWith(t, <<"[", "^", "/", "]">>) THEN [n |-> 4, atom |-> Atom("notSlash", "-")]
    ELSE IF StartsWith(t, <<"(", ".", "*", "/", ")">>) THEN [n |-> 5, atom |-> Atom("dirs", "-")]
    ELSE IF Head(t) = "." THEN [n |-> 1, atom |-> Atom("any", "-")]
    ELSE IF Head(t) \in {"*", "?", "\\", "[", "(", ")", "^", "$"}
         THEN [n |-> 0, atom |-> Atom("none", "-")]
    ELSE [n |-> 1, atom |-> Atom("lit", Head(t))]

\* the quantifier at the head of text t and the characters it takes
QuantAt(t) ==
    IF t = <<>> \/ Head(t) \notin {"*", "?"} THEN [n |-> 0, q |-> "one"]
    ELSE LET q == IF Head(t) = "*" THEN "star" ELSE "opt"
         IN  IF Len(t) >= 2 /\ t[2] = "?" THEN [n |-> 2, q |-> q]
             ELSE [n |-> 1, q |-> q]

RECURSIVE ParseTerms(_)
ParseTerms(t) ==
    IF t = <<>> THEN [ok |-> TRUE, tokens |-> <<>>]
    ELSE LET a == AtomAt(t)
         IN  IF a.n = 0 THEN SyntaxError
             ELSE LET q    == QuantAt(Drop(t, a.n))
                      rest == ParseTerms(Drop(t, a.n + q.n))
                  IN  IF rest.ok
                      THEN [ok |-> TRUE, tokens |-> <<Token(a.atom, q.q)>> \o rest.tokens]
                      ELSE SyntaxError

\* new RegExp(source): source is `^` body `$`
RegExpCompile(source) ==
    IF Len(source) >= 2 /\ Head(source) = "^" /\ source[Len(source)] = "$"
    THEN ParseTerms(SubSeq(source, 2, Len(source) - 1))
    ELSE SyntaxError

\* `.` matches any character but a line terminator
LineTerminators == {"\n", "\r"}

CharMatches(atom, c) ==
    CASE atom.kind = "lit" -> c = atom.c
      [] atom.kind = "any" -> c \notin LineTerminators
      [] atom.kind = "notSlash" -> c # "/"
      [] OTHER -> FALSE

\* positions at which one occurrence of the atom, started at position i of s, can end
AtomEnds(atom, s, i) ==
    IF atom.kind = "dirs"
    THEN {j + 1 : j \in {k \in i..Len(s) :
                            /\ s[k] = "/"
                            /\ \A l \in i..(k - 1) : s[l] \notin LineTerminators}}
    ELSE IF i <= Len(s) /\ CharMatches(atom, s[i]) THEN {i + 1} ELSE {}

RECURSIVE MatchFrom(_, _, _, _)
\* tokens[ti..] match s[i..] to the end of s
MatchFrom(tokens, ti, s, i) ==
    IF ti > Len(tokens) THEN i = Len(s) + 1
    ELSE LET t    == tokens[ti]
             ends == AtomEnds(t.atom, s, i)
         IN  CASE t.q = "one"  -> \E e \in ends : MatchFrom(tokens, ti + 1, s, e)
               [] t.q = "opt"  -> \/ MatchFrom(tokens, ti + 1, s, i)
                                  \/ \E e \in ends : MatchFrom(tokens, ti + 1, s, e)
               [] t.q = "star" -> \/ MatchFrom(tokens, ti + 1, s, i)
                                  \/ \E e \in ends : MatchFrom(tokens, ti, s, e)

\* regex.test(s) for a compiled expression
RegExpTest(regex, s) == MatchFrom(regex.tokens, 1, s, 1)

createGlobRegex(pattern) == RegExpCompile(GlobRegexSource(pattern))

createMethodGlobRegex(pattern) == RegExpCompile(MethodGlobRegexSource(pattern))


(***************************************************************************)
(* config-loader.ts: eligibility of files and methods.                     *)
(***************************************************************************)
Returned(b) == [threw |-> FALSE, value |-> b]
Threw == [threw |-> TRUE, value |-> FALSE]

RECURSIVE SomeGlobMatches(_, _)
\* patterns.some(pattern => createGlobRegex(pattern).test(name)): left to
\* right, stopping at the first match; a pattern that does not compile throws
SomeGlobMatches(patterns, name) ==
    IF patterns = <<>> THEN Returned(FALSE)
    ELSE LET regex == createGlobRegex(Head(patterns))
         IN  IF ~regex.ok THEN Threw
             ELSE IF RegExpTest(regex, name) THEN Returned(TRUE)
             ELSE SomeGlobMatches(Tail(patterns), name)

\* variant: the include patterns are consulted first and decide alone
shouldTransformFile_IncludeFirst(name, cfg) ==
    LET normalizedFileName == ReplaceAll(name, <<"\\">>, <<"/">>)
        isIncluded == SomeGlobMatches(cfg.include, normalizedFileName)
        isExcluded == SomeGlobMatches(cfg.exclude, normalizedFileName)
    IN  IF isIncluded.threw THEN Threw
        ELSE IF isIncluded.value THEN Returned(TRUE)
        ELSE IF isExcluded.threw THEN Threw
        ELSE Returned(FALSE)

shouldTransformFile(name, cfg) ==
    LET normalizedFileName == ReplaceAll(name, <<"\\">>, <<"/">>)
        isExcluded == SomeGlobMatches(cfg.exclude, normalizedFileName)
    IN  IF isExcluded.threw THEN Threw
        ELSE IF isExcluded.value THEN Returned(FALSE)
        ELSE SomeGlobMatches(cfg.include, normalizedFileName)

matchesMethodPattern(name, patterns) ==
    \E i \in DOMAIN patterns :
        IF Includes(patterns[i], "*") \/ Includes(patterns[i], "?")
        THEN LET regex == createMethodGlobRegex(patterns[i])
             IN  regex.ok /\ RegExpTest(regex, name)
        ELSE patterns[i] = name

\* variant: a name on the exclude list is rejected before the include list is read
shouldInstrumentMethod_ExcludeFirst(name, cfg) ==
    IF ~cfg.instrumentPrivateMethods /\ StartsWith(name, <<"_">>) THEN FALSE
    ELSE IF Len(cfg.excludeMethods) > 0 /\ matchesMethodPattern(name, cfg.excludeMethods)
         THEN FALSE
    ELSE IF Len(cfg.includeMethods) > 0
         THEN matchesMethodPattern(name, cfg.includeMethods)
    ELSE TRUE

\* includeMethods / excludeMethods are optional: an absent list is the empty
\* sequence here, which every test of the code treats like an empty list
shouldInstrumentMethod(name, cfg) ==
    IF ~cfg.instrumentPrivateMethods /\ StartsWith(name, <<"_">>) THEN FALSE
    ELSE IF Len(cfg.includeMethods) > 0
         THEN matchesMethodPattern(name, cfg.includeMethods)
    ELSE IF Len(cfg.excludeMethods) > 0 /\ matchesMethodPattern(name, cfg.excludeMethods)
         THEN FALSE
    ELSE TRUE


(***************************************************************************)
(* types.ts: DEFAULT_CONFIG (the fields the transformer reads).            *)
(***************************************************************************)
DEFAULT_CONFIG ==
    [include |-> <<<<"*", "*", "/", "*", "s", "e", "r", "v", "i", "c", "e", ".", "t", "s">>,
                   <<"*", "*", "/", "*", "r", "e", "p", "o", "s", "i", "t", "o", "r", "y", ".", "t", "s">>,
                   <<"*", "*", "/", "*", "m", "a", "n", "a", "g", "e", "r", ".", "t", "s">>>>,
     exclude |-> <<<<"*", "*", "/", "*", ".", "t", "e", "s", "t", ".", "t", "s">>,
                   <<"*", "*", "/", "*", ".", "s", "p", "e", "c", ".", "t", "s">>,
                   <<"*", "*", "/", "n", "o", "d", "e", "_", "m", "o", "d", "u", "l", "e", "s", "/", "*", "*">>>>,
     instrumentPrivateMethods |-> TRUE,
     spanNamePrefix |-> <<"t", "s", "-", "o", "t", "e", "l", "-", "w", "e", "a", "v", "e", "r">>,
     autoInjectTracer |-> TRUE,
     includeMethods |-> <<>>,
     excludeMethods |-> <<<<"c", "o", "n", "s", "t", "r", "u", "c", "t", "o", "r">>,
                          <<"t", "o", "S", "t", "r", "i", "n", "g">>,
                          <<"v", "a", "l", "u", "e", "O", "f">>,
                          <<"t", "o", "J", "S", "O", "N">>,
                          <<"i", "n", "s", "p", "e", "c", "t">>>>,
     maxMethodsPerFile |-> 100]

(***************************************************************************)
(* SpecMatch: shouldTransformFile and shouldInstrumentMethod applied to    *)
(* inputs drawn from bounded sets.                                         *)
(***************************************************************************)
MaxFilePatterns == 2
MaxMethodPatterns == 2

FilePatterns ==
    {<<"*", "*", "/", "*", "s", ".", "t", "s">>, <<"*", ".", "t", "s">>,
     <<"*", "*", "/", "*", ".", "t", ".", "t", "s">>, <<"*", "*", "/", "n", "/", "*", "*">>}

FilePaths ==
    {<<"a", "/", "s", ".", "t", "s">>, <<"s", ".", "t", "s">>,
     <<"a", "/", "s", ".", "t", ".", "t", "s">>, <<"n", "/", "s", ".", "t", "s">>,
     <<"a", "\\", "s", ".", "t", "s">>, <<"a", "/", "c", ".", "j", "s">>}

MethodPatterns == {<<"m">>, <<"m", "*">>, <<"?", "x">>, <<"_", "*">>}

MethodNames == {<<"m">>, <<"m", "x">>, <<"_", "p">>, <<"a", "x">>}

FileConfigs ==
    {[DEFAULT_CONFIG EXCEPT !.include = inc, !.exclude = exc] :
        inc \in SeqsUpTo(FilePatterns, MaxFilePatterns) \ {<<>>},
        exc \in SeqsUpTo(FilePatterns, MaxFilePatterns)}

MethodConfigs ==
    {[DEFAULT_CONFIG EXCEPT !.instrumentPrivateMethods = ipm,
                            !.includeMethods = inc, !.excludeMethods = exc] :
        ipm \in BOOLEAN,
        inc \in SeqsUpTo(MethodPatterns, MaxMethodPatterns),
        exc \in SeqsUpTo(MethodPatterns, MaxMethodPatterns)}

MatchInit ==
    /\ \/ /\ matchPc = "file"
          /\ config \in FileConfigs
          /\ fileName \in FilePaths
          /\ methodName = <<>>
       \/ /\ matchPc = "method"
          /\ config \in MethodConfigs
          /\ fileName = <<>>
          /\ methodName \in MethodNames
    /\ matchResult = Returned(FALSE)

CallShouldTransformFile ==
    /\ matchPc = "file"
    /\ matchResult' = shouldTransformFile(fileName, config)
    /\ matchPc' = "fileDone"
    /\ UNCHANGED <<config, fileName, methodName>>
    /\ UNCHANGED NotMatch

CallShouldInstrumentMethod ==
    /\ matchPc = "method"
    /\ matchResult' = Returned(shouldInstrumentMethod(methodName, config))
    /\ matchPc' = "methodDone"
    /\ UNCHANGED <<config, fileName, methodName>>
    /\ UNCHANGED NotMatch

MatchNext ==
    \/ CallShouldTransformFile
    \/ CallShouldInstrumentMethod

InitMatch == MatchInit /\ RunIdle /\ VisitIdle /\ DriverIdle /\ LoadIdle /\ UtilIdle

SpecMatch == InitMatch /\ [][MatchNext]_vars

\* a path matches a file pattern: the compiled pattern accepts the whole
\* path, with `\` read as `/`
PathMatches(path, pattern) ==
    /\ createGlobRegex(pattern).ok
    /\ RegExpTest(createGlobRegex(pattern), ReplaceAll(path, <<"\\">>, <<"/">>))

MatchesSomeFilePattern(path, patterns) ==
    \E i \in DOMAIN patterns : PathMatches(path, patterns[i])

\* C8: shouldTransformFile(path, config) is true iff the path matches at
\* least one include pattern and no exclude pattern; a path that matches
\* both an include and an exclude pattern yields false.
C8_ExcludeWins ==
    matchPc = "fileDone" =>
        /\ ~matchResult.threw
        /\ matchResult.value =
              (/\ MatchesSomeFilePattern(fileName, config.include)
               /\ ~MatchesSomeFilePattern(fileName, config.exclude))
        /\ (/\ MatchesSomeFilePattern(fileName, config.include)
            /\ MatchesSomeFilePattern(fileName, config.exclude))
              => matchResult.value = FALSE

C8_Witness ==
    /\ matchPc = "fileDone"
    /\ MatchesSomeFilePattern(fileName, config.include)
    /\ MatchesSomeFilePattern(fileName, config.exclude)
    /\ config.include # config.exclude
    /\ matchResult = Returned(FALSE)

\* C9: shouldInstrumentMethod(name, config) is the four-step decision:
\* (1) reject a name starting with `_` when instrumentPrivateMethods is
\* false; (2) else, with a non-empty includeMethods, accept iff the name
\* matches an includeMethods entry, whatever excludeMethods holds; (3) else
\* reject iff the name matches an excludeMethods entry; (4) else accept.
C9_FourStepDecision ==
    matchPc = "methodDone" =>
        LET private  == methodName # <<>> /\ methodName[1] = "_"
            step1    == ~config.instrumentPrivateMethods /\ private
            step2    == ~step1 /\ config.includeMethods # <<>>
            step3    == ~step1 /\ ~step2
                          /\ matchesMethodPattern(methodName, config.excludeMethods)
        IN  /\ step1 => matchResult.value = FALSE
            /\ step2 => matchResult.value =
                           matchesMethodPattern(methodName, config.includeMethods)
            /\ step3 => matchResult.value = FALSE
            /\ (~step1 /\ ~step2 /\ ~step3) => matchResult.value = TRUE

C9_Witness ==
    /\ matchPc = "methodDone"
    /\ config.includeMethods # <<>>
    /\ matchesMethodPattern(methodName, config.includeMethods)
    /\ matchesMethodPattern(methodName, config.excludeMethods)
    /\ matchResult = Returned(TRUE)


(***************************************************************************)
(* ast-visitor.ts: the traversal of one source file.                       *)
(*                                                                         *)
(* A source file is [fileName, statements].  A statement is a class        *)
(* declaration [kind "class", name, members] or one of "otelImport" (an    *)
(* import of trace / SpanStatusCode / SpanKind from @opentelemetry/api),   *)
(* "tracerVar" (a variable statement declaring `tracer`) and "other".  A   *)
(* class member is [kind, name, hasBody, spans]: kind is "method",         *)
(* "constructor" or "property"; spans lists the span names of the wrappers *)
(* around the body, outermost first (empty for an unrewritten member);     *)
(* classes lists the class declarations among the statements of the body.  *)
(***************************************************************************)
NoName == <<>>
UnknownClass == <<"U", "n", "k", "n", "o", "w", "n", "C", "l", "a", "s", "s">>

Statement(kind, name, members) == [kind |-> kind, name |-> name, members |-> members]
Member(kind, name, hasBody) ==
    [kind |-> kind, name |-> name, hasBody |-> hasBody, spans |-> <<>>, classes |-> <<>>]

Dot(a, b) == a \o <<".">> \o b

\* `${context.config.spanNamePrefix}.${className}.${methodName}` around the
\* body of the method; name, modifiers and parameters are kept
wrapMethodWithSpan(m, context, cfg) ==
    LET mName     == IF m.name = NoName THEN <<"u", "n", "k", "n", "o", "w", "n">> ELSE m.name
        className == IF context.className = NoName THEN UnknownClass ELSE context.className
        spanName  == Dot(Dot(cfg.spanNamePrefix, className), mName)
    IN  [m EXCEPT !.spans = <<spanName>> \o @]

\* variant: a method whose body already is a span wrapper is left alone
visitMethodDeclaration_SkipsWrapped(m, context, cfg) ==
    IF m.name = NoName THEN m
    ELSE IF ~shouldInstrumentMethod(m.name, cfg) THEN m
    ELSE IF ~m.hasBody THEN m
    ELSE IF m.spans # <<>> THEN m
    ELSE wrapMethodWithSpan(m, context, cfg)

visitMethodDeclaration(m, context, cfg) ==
    IF m.name = NoName THEN m
    ELSE IF ~shouldInstrumentMethod(m.name, cfg) THEN m
    ELSE IF ~m.hasBody THEN m
    ELSE wrapMethodWithSpan(m, context, cfg)

\* variant: every member with a body is wrapped
memberVisitor_WrapsAll(node, context, cfg) ==
    IF node.hasBody THEN wrapMethodWithSpan(node, context, cfg) ELSE node

\* the memberVisitor closure of visitClassDeclaration: a method is handed to
\* visitMethodDeclaration, any other member is handed back; the visitor does
\* not descend into a member
memberVisitor(node, context, cfg) ==
    IF node.kind = "method" THEN visitMethodDeclaration(node, context, cfg) ELSE node

\* variant: no statement is recognised as an entry point
hasExistingTracerImport_Never(file) == FALSE

hasExistingTracerImport(file) ==
    \E i \in DOMAIN file.statements :
        file.statements[i].kind \in {"otelImport", "tracerVar"}

createTracerImports ==
    <<Statement("otelImport", NoName, <<>>), Statement("tracerVar", NoName, <<>>)>>

(***************************************************************************)
(* SpecVisit: inputs.                                                      *)
(***************************************************************************)
MaxStatements == 2

ClassNames == {<<"A">>, <<"B">>}

M_m == Member("method", <<"m">>, TRUE)
M_n == Member("method", <<"n">>, TRUE)
M_toString == Member("method", <<"t", "o", "S", "t", "r", "i", "n", "g">>, TRUE)
M_abstract == Member("method", <<"m">>, FALSE)
M_constructor == Member("constructor", <<"c", "o", "n", "s", "t", "r", "u", "c", "t", "o", "r">>, TRUE)
M_property == Member("property", <<"p">>, FALSE)
\* o() { class B { n() {} } }
M_outer ==
    [Member("method", <<"o">>, TRUE) EXCEPT !.classes = <<Statement("class", <<"B">>, <<M_n>>)>>]

MemberLists ==
    {<<>>, <<M_m>>, <<M_m, M_n>>, <<M_constructor, M_toString, M_m>>,
     <<M_property, M_abstract, M_n>>, <<M_outer, M_m>>}

Statements ==
    {Statement("class", c, ms) : c \in ClassNames, ms \in MemberLists}
    \cup {Statement("otelImport", NoName, <<>>), Statement("tracerVar", NoName, <<>>),
          Statement("other", NoName, <<>>)}

FileNames ==
    {<<"a", "/", "s", ".", "t", "s">>, <<"a", "/", "c", ".", "j", "s">>,
     <<"a", "/", "s", ".", "t", ".", "t", "s">>}

\* a module declares `tracer` at most once
DeclaresTracerOnce(sts) ==
    Cardinality({i \in DOMAIN sts : sts[i].kind = "tracerVar"}) <= 1

SourceFiles ==
    {[fileName |-> f, statements |-> sts] :
        f \in FileNames,
        sts \in {s \in SeqsUpTo(Statements, MaxStatements) : DeclaresTracerOnce(s)}}

VisitConfigs ==
    {[DEFAULT_CONFIG EXCEPT !.include = <<<<"*", "*", "/", "*", ".", "t", "s">>>>, !.exclude = <<<<"*", "*", "/", "*", ".", "t", ".", "t", "s">>>>,
                            !.autoInjectTracer = inject, !.maxMethodsPerFile = limit] :
        inject \in BOOLEAN, limit \in {1, 100}}

VisitInit ==
    /\ sourceFile \in SourceFiles
    /\ config \in VisitConfigs
    /\ transformContext = [sourceFile |-> <<>>, hasTracerImport |-> FALSE, className |-> NoName]
    /\ visitPc = "start"
    /\ stmtIdx = 1
    /\ memberIdx = 1
    /\ previousClassName = NoName
    /\ newMembers = <<>>
    /\ transformedStatements = <<>>
    /\ result = <<>>

\* the per-file closure returned by createTracingTransformer: an ineligible
\* file is handed back as it is; otherwise a fresh context is made and the
\* file is visited
TransformSourceFile ==
    /\ visitPc = "start"
    /\ LET eligible == shouldTransformFile(sourceFile.fileName, config)
       IN  IF eligible.threw
           THEN visitPc' = "threw" /\ UNCHANGED <<result, transformContext>>
           ELSE IF ~eligible.value
           THEN /\ visitPc' = "done"
                /\ result' = sourceFile.statements
                /\ UNCHANGED transformContext
           ELSE /\ visitPc' = "visitSourceFile"
                /\ transformContext' = [sourceFile |-> sourceFile.fileName,
                                        hasTracerImport |-> FALSE,
                                        className |-> NoName]
                /\ UNCHANGED result
    /\ UNCHANGED <<config, sourceFile, stmtIdx, memberIdx, previousClassName,
                   newMembers, transformedStatements>>
    /\ UNCHANGED NotVisit

\* visitSourceFile, up to the eligibility test
VisitSourceFile ==
    /\ visitPc = "visitSourceFile"
    /\ transformContext' = [transformContext EXCEPT
                               !.sourceFile = sourceFile.fileName,
                               !.hasTracerImport = hasExistingTracerImport(sourceFile)]
    /\ LET eligible == shouldTransformFile(sourceFile.fileName, config)
       IN  IF eligible.threw
           THEN visitPc' = "threw" /\ UNCHANGED <<result, stmtIdx, transformedStatements>>
           ELSE IF ~eligible.value
           THEN /\ visitPc' = "done"
                /\ result' = sourceFile.statements
                /\ UNCHANGED <<stmtIdx, transformedStatements>>
           ELSE /\ visitPc' = "statements"
                /\ stmtIdx' = 1
                /\ transformedStatements' = <<>>
                /\ UNCHANGED result
    /\ UNCHANGED <<config, sourceFile, memberIdx, previousClassName, newMembers>>
    /\ UNCHANGED NotVisit

AtStatement == visitPc = "statements" /\ stmtIdx <= Len(sourceFile.statements)
CurrentStatement == sourceFile.statements[stmtIdx]

\* createVisitor on a statement that is no class declaration:
\* ts.visitEachChild finds no class in it and hands it back
VisitOtherStatement ==
    /\ AtStatement
    /\ CurrentStatement.kind # "class"
    /\ transformedStatements' = Append(transformedStatements, CurrentStatement)
    /\ stmtIdx' = stmtIdx + 1
    /\ UNCHANGED <<config, sourceFile, transformContext, visitPc, memberIdx,
                   previousClassName, newMembers, result>>
    /\ UNCHANGED NotVisit

\* variant: the class name of the context is left as it was
EnterClass_KeepsContextName ==
    /\ AtStatement
    /\ CurrentStatement.kind = "class"
    /\ previousClassName' = transformContext.className
    /\ transformContext' = transformContext
    /\ memberIdx' = 1
    /\ newMembers' = <<>>
    /\ visitPc' = "members"
    /\ UNCHANGED <<config, sourceFile, stmtIdx, transformedStatements, result>>
    /\ UNCHANGED NotVisit

\* visitClassDeclaration: the class name is saved and replaced
EnterClass ==
    /\ AtStatement
    /\ CurrentStatement.kind = "class"
    /\ previousClassName' = transformContext.className
    /\ transformContext' = [transformContext EXCEPT !.className =
                               IF CurrentStatement.name = NoName THEN UnknownClass
                               ELSE CurrentStatement.name]
    /\ memberIdx' = 1
    /\ newMembers' = <<>>
    /\ visitPc' = "members"
    /\ UNCHANGED <<config, sourceFile, stmtIdx, transformedStatements, result>>
    /\ UNCHANGED NotVisit

\* visitClassDeclaration: classDecl.members.map(member => ts.visitNode(member, memberVisitor))
VisitMember ==
    /\ visitPc = "members"
    /\ memberIdx <= Len(CurrentStatement.members)
    /\ newMembers' = Append(newMembers,
                            memberVisitor(CurrentStatement.members[memberIdx],
                                          transformContext, config))
    /\ memberIdx' = memberIdx + 1
    /\ UNCHANGED <<config, sourceFile, transformContext, visitPc, stmtIdx,
                   previousClassName, transformedStatements, result>>
    /\ UNCHANGED NotVisit

\* visitClassDeclaration: the class name is restored and the class rebuilt
LeaveClass ==
    /\ visitPc = "members"
    /\ memberIdx > Len(CurrentStatement.members)
    /\ transformContext' = [transformContext EXCEPT !.className = previousClassName]
    /\ transformedStatements' =
          Append(transformedStatements, [CurrentStatement EXCEPT !.members = newMembers])
    /\ stmtIdx' = stmtIdx + 1
    /\ visitPc' = "statements"
    /\ UNCHANGED <<config, sourceFile, memberIdx, previousClassName, newMembers, result>>
    /\ UNCHANGED NotVisit

\* variant: the entry point is prepended only when a method was rewritten
FinishSourceFile_OnlyWhenRewritten ==
    /\ visitPc = "statements"
    /\ stmtIdx > Len(sourceFile.statements)
    /\ result' = IF /\ config.autoInjectTracer
                    /\ ~transformContext.hasTracerImport
                    /\ \E i \in DOMAIN transformedStatements :
                          \E j \in DOMAIN transformedStatements[i].members :
                              transformedStatements[i].members[j].spans # <<>>
                 THEN createTracerImports \o transformedStatements
                 ELSE transformedStatements
    /\ visitPc' = "done"
    /\ UNCHANGED <<config, sourceFile, transformContext, stmtIdx, memberIdx,
                   previousClassName, newMembers, transformedStatements>>
    /\ UNCHANGED NotVisit

\* visitSourceFile, after the statements: the entry point is prepended when
\* autoInjectTracer is set and the file had none
FinishSourceFile ==
    /\ visitPc = "statements"
    /\ stmtIdx > Len(sourceFile.statements)
    /\ result' = IF config.autoInjectTracer /\ ~transformContext.hasTracerImport
                 THEN createTracerImports \o transformedStatements
                 ELSE transformedStatements
    /\ visitPc' = "done"
    /\ UNCHANGED <<config, sourceFile, transformContext, stmtIdx, memberIdx,
                   previousClassName, newMembers, transformedStatements>>
    /\ UNCHANGED NotVisit

VisitNext ==
    \/ TransformSourceFile
    \/ VisitSourceFile
    \/ VisitOtherStatement
    \/ EnterClass
    \/ VisitMember
    \/ LeaveClass
    \/ FinishSourceFile

InitVisit == VisitInit /\ RunIdle /\ MatchIdle /\ DriverIdle /\ LoadIdle /\ UtilIdle

SpecVisit == InitVisit /\ [][VisitNext]_vars


\* the members of the classes of a statement list, as (class name, member) pairs
RECURSIVE MembersOf(_)
MembersOf(sts) ==
    IF sts = <<>> THEN <<>>
    ELSE [i \in DOMAIN Head(sts).members |->
             [class |-> Head(sts).name, member |-> Head(sts).members[i]]]
         \o MembersOf(Tail(sts))

IsRewritten(m) == m.spans # <<>>

RewrittenCount(sts) ==
    Cardinality({i \in DOMAIN MembersOf(sts) : IsRewritten(MembersOf(sts)[i].member)})

\* C7: within one file the number of rewritten methods never exceeds
\* config.maxMethodsPerFile.
C7_AtMostMaxMethodsPerFile ==
    /\ visitPc = "members" =>
          RewrittenCount(Append(transformedStatements,
                                Statement("class", CurrentStatement.name, newMembers)))
             <= config.maxMethodsPerFile
    /\ visitPc = "statements" =>
          RewrittenCount(transformedStatements) <= config.maxMethodsPerFile
    /\ visitPc = "done" => RewrittenCount(result) <= config.maxMethodsPerFile

\* C10: a rewritten method's span name is {spanNamePrefix}.{C}.{m} with C
\* the class that directly contains m, also with several classes in one
\* file, and once a class has been visited the context's class name is what
\* it was before the class was entered.
C10_SpanNameOfOwnClass ==
    LET ownName(e) == Dot(Dot(config.spanNamePrefix, e.class), e.member.name)
        wellNamed(sts) ==
            \A i \in DOMAIN MembersOf(sts) :
                LET e == MembersOf(sts)[i]
                IN  IsRewritten(e.member) => e.member.spans = <<ownName(e)>>
    IN  /\ wellNamed(transformedStatements)
        /\ wellNamed(result)
        /\ visitPc = "members" =>
              wellNamed(<<Statement("class", CurrentStatement.name, newMembers)>>)
        /\ visitPc \in {"statements", "done"} => transformContext.className = NoName

C10_Witness ==
    /\ visitPc = "done"
    /\ \E i, j \in DOMAIN MembersOf(result) :
          LET a == MembersOf(result)[i]
              b == MembersOf(result)[j]
          IN  /\ a.class = <<"A">> /\ b.class = <<"B">>
              /\ a.member.name = <<"m">> /\ b.member.name = <<"m">>
              /\ IsRewritten(a.member) /\ IsRewritten(b.member)
              /\ i < j

\* the path is eligible: it matches an include pattern and no exclude pattern
EligiblePath(path, cfg) ==
    /\ MatchesSomeFilePattern(path, cfg.include)
    /\ ~MatchesSomeFilePattern(path, cfg.exclude)

\* C11: when the file's path is ineligible, the transform hands back the
\* input tree itself: no method is rewritten and no import or tracer
\* declaration is added, whatever autoInjectTracer is.
C11_IneligibleFileUnchanged ==
    (visitPc = "done" /\ ~EligiblePath(sourceFile.fileName, config))
        => result = sourceFile.statements

C11_Witness ==
    /\ visitPc = "done"
    /\ ~EligiblePath(sourceFile.fileName, config)
    /\ MatchesSomeFilePattern(sourceFile.fileName, config.include)
    /\ config.autoInjectTracer
    /\ ~hasExistingTracerImport(sourceFile)
    /\ \E i \in DOMAIN sourceFile.statements :
          /\ sourceFile.statements[i].kind = "class"
          /\ M_m \in {sourceFile.statements[i].members[j] :
                         j \in DOMAIN sourceFile.statements[i].members}
    /\ result = sourceFile.statements

(***************************************************************************)
(* SpecRepeat: the transformer applied again to the tree it handed back.   *)
(***************************************************************************)
MaxPasses == 3

RepeatStatements ==
    {Statement("class", <<"A">>, ms) : ms \in MemberLists}
    \cup {Statement("otelImport", NoName, <<>>), Statement("tracerVar", NoName, <<>>),
          Statement("other", NoName, <<>>)}

RepeatFiles ==
    {[fileName |-> f, statements |-> sts] :
        f \in {<<"a", "/", "s", ".", "t", "s">>, <<"a", "/", "c", ".", "j", "s">>},
        sts \in {s \in SeqsUpTo(RepeatStatements, MaxStatements) : DeclaresTracerOnce(s)}}

RepeatInit ==
    /\ sourceFile \in RepeatFiles
    /\ config \in {c \in VisitConfigs : c.maxMethodsPerFile = DEFAULT_CONFIG.maxMethodsPerFile}
    /\ transformContext = [sourceFile |-> <<>>, hasTracerImport |-> FALSE, className |-> NoName]
    /\ visitPc = "start"
    /\ stmtIdx = 1
    /\ memberIdx = 1
    /\ previousClassName = NoName
    /\ newMembers = <<>>
    /\ transformedStatements = <<>>
    /\ result = <<>>
    /\ input = sourceFile
    /\ pass = 1
    /\ suspended = <<>>

\* the driver hands the tree it got back to the transformer once more
TransformOutputAgain ==
    /\ visitPc = "done"
    /\ pass < MaxPasses
    /\ sourceFile' = [sourceFile EXCEPT !.statements = result]
    /\ pass' = pass + 1
    /\ visitPc' = "start"
    /\ transformContext' = [sourceFile |-> <<>>, hasTracerImport |-> FALSE, className |-> NoName]
    /\ stmtIdx' = 1
    /\ memberIdx' = 1
    /\ previousClassName' = NoName
    /\ newMembers' = <<>>
    /\ transformedStatements' = <<>>
    /\ result' = <<>>
    /\ UNCHANGED <<config, input, suspended>>
    /\ UNCHANGED NotDriver

RepeatNext ==
    \/ TransformSourceFile
    \/ VisitSourceFile
    \/ VisitOtherStatement
    \/ EnterClass
    \/ VisitMember
    \/ LeaveClass
    \/ FinishSourceFile
    \/ TransformOutputAgain

InitRepeat == RepeatInit /\ RunIdle /\ MatchIdle /\ LoadIdle /\ UtilIdle

SpecRepeat == InitRepeat /\ [][RepeatNext]_vars

CountKind(sts, kind) == Cardinality({i \in DOMAIN sts : sts[i].kind = kind})

\* C12: however often the output of the transform is fed back into it, the
\* file holds at most one injected import of the tracing symbols and at
\* most one injected `tracer` declaration: once an entry point is present
\* the injector adds nothing.
C12_PreambleInjectedAtMostOnce ==
    visitPc = "done" =>
        /\ CountKind(result, "otelImport") <= CountKind(input.statements, "otelImport") + 1
        /\ CountKind(result, "tracerVar") <= CountKind(input.statements, "tracerVar") + 1
        /\ hasExistingTracerImport([fileName |-> input.fileName, statements |-> input.statements])
              => /\ CountKind(result, "otelImport") = CountKind(input.statements, "otelImport")
                 /\ CountKind(result, "tracerVar") = CountKind(input.statements, "tracerVar")

C12_Witness ==
    /\ visitPc = "done"
    /\ pass = MaxPasses
    /\ pass > 1
    /\ CountKind(input.statements, "otelImport") = 0
    /\ CountKind(result, "otelImport") = 1
    /\ CountKind(result, "tracerVar") = 1

\* the method is one the traversal rewrites: a method with a name and a
\* body, accepted by shouldInstrumentMethod, in a file of an eligible path
EligibleMember(m) ==
    /\ EligiblePath(sourceFile.fileName, config)
    /\ m.kind = "method"
    /\ m.name # NoName
    /\ m.hasBody
    /\ shouldInstrumentMethod(m.name, config)

\* C20: the rewriting engine does not de-duplicate: after n passes of the
\* full transform over an eligible file each eligible method is wrapped in
\* exactly n nested span wrappers, one layer per pass, and every other
\* member is as it was.
C20_OneLayerPerPass ==
    visitPc = "done" =>
        /\ DOMAIN MembersOf(result) = DOMAIN MembersOf(input.statements)
        /\ \A i \in DOMAIN MembersOf(result) :
              LET after  == MembersOf(result)[i].member
                  before == MembersOf(input.statements)[i].member
              IN  IF EligibleMember(before)
                  THEN Len(after.spans) = Len(before.spans) + pass
                  ELSE after = before

C20_Witness ==
    /\ visitPc = "done"
    /\ pass = 2
    /\ \E i \in DOMAIN MembersOf(result) :
          LET after == MembersOf(result)[i].member
          IN  /\ Len(after.spans) = 2
              /\ after.spans[1] = after.spans[2]

\* C22: in an eligible file every class member that is not rewritten (a
\* method rejected by shouldInstrumentMethod, a declaration without a body,
\* a constructor, a non-method member) is in the output once and unchanged,
\* and all declarations, rewritten or not, keep their relative order.
C22_OtherMembersUnchanged ==
    (visitPc = "done" /\ EligiblePath(sourceFile.fileName, config)) =>
        LET before == MembersOf(sourceFile.statements)
            after  == MembersOf(result)
            added  == Len(result) - Len(sourceFile.statements)
        IN  /\ added \in {0, 2}
            /\ \A i \in DOMAIN sourceFile.statements :
                   /\ result[i + added].kind = sourceFile.statements[i].kind
                   /\ result[i + added].name = sourceFile.statements[i].name
            /\ Len(after) = Len(before)
            /\ \A i \in DOMAIN before :
                   /\ after[i].class = before[i].class
                   /\ after[i].member.kind = before[i].member.kind
                   /\ after[i].member.name = before[i].member.name
                   /\ ~EligibleMember(before[i].member) => after[i].member = before[i].member

C22_Witness ==
    /\ visitPc = "done"
    /\ EligiblePath(sourceFile.fileName, config)
    /\ \E i \in DOMAIN result :
          /\ result[i].kind = "class"
          /\ Len(result[i].members) = 3
          /\ result[i].members[1] = M_constructor
          /\ result[i].members[2] = M_toString
          /\ result[i].members[3].name = <<"m">>
          /\ IsRewritten(result[i].members[3])

\* C27 (as stated): the entry point is added only to files in which a
\* method was rewritten: an eligible file with no rewritten method is
\* emitted with no added import and no added `tracer` declaration.
C27_NoPreambleWithoutRewrite ==
    (/\ visitPc = "done"
     /\ EligiblePath(sourceFile.fileName, config)
     /\ RewrittenCount(result) = 0)
        => result = sourceFile.statements

\* C27 (amended): the entry point is added to an eligible file exactly when
\* autoInjectTracer is true and the file has no entry point already,
\* whether or not a method was rewritten: such a file with no rewritten
\* method is emitted with the import and the `tracer` declaration in front
\* of its statements, which are unchanged.
C27_PreambleWhenEnabledAndMissing ==
    (visitPc = "done" /\ EligiblePath(sourceFile.fileName, config)) =>
        LET inject == config.autoInjectTracer /\ ~hasExistingTracerImport(sourceFile)
        IN  /\ Len(result) = Len(sourceFile.statements) + (IF inject THEN 2 ELSE 0)
            /\ inject => SubSeq(result, 1, 2) = createTracerImports
            /\ (inject /\ RewrittenCount(result) = 0)
                   => result = createTracerImports \o sourceFile.statements
            /\ (~inject /\ RewrittenCount(result) = 0) => result = sourceFile.statements

C27_Witness ==
    /\ visitPc = "done"
    /\ EligiblePath(sourceFile.fileName, config)
    /\ RewrittenCount(result) = 0
    /\ sourceFile.statements = <<Statement("other", NoName, <<>>)>>
    /\ result = createTracerImports \o sourceFile.statements

\* C23: nested classes are traversed with stack discipline: for a class
\* declared inside a method body of another class, the inner class's
\* eligible methods are rewritten with the inner class's name, and the
\* methods of the outer class that follow are rewritten with the outer
\* class's name.
C23_NestedClassesRewritten ==
    (visitPc = "done" /\ EligiblePath(sourceFile.fileName, config)) =>
        \A i \in DOMAIN result :
            \A j \in DOMAIN result[i].members :
                LET outer == result[i].members[j]
                IN  /\ \A k \in DOMAIN outer.classes :
                           \A l \in DOMAIN outer.classes[k].members :
                               LET inner == outer.classes[k].members[l]
                               IN  shouldInstrumentMethod(inner.name, config) =>
                                       inner.spans =
                                           <<Dot(Dot(config.spanNamePrefix, outer.classes[k].name),
                                                 inner.name)>>
                    /\ \A l \in DOMAIN result[i].members :
                           (l > j /\ outer.classes # <<>> /\ EligibleMember(sourceFile.statements[i - (Len(result) - Len(sourceFile.statements))].members[l]))
                               => result[i].members[l].spans =
                                      <<Dot(Dot(config.spanNamePrefix, result[i].name),
                                            result[i].members[l].name)>>

\* C13: with autoInjectTracer true, an output file in which at least one
\* method was rewritten has exactly one module-level `tracer` declaration,
\* pre-existing or injected.
C13_ExactlyOneTracerHandle ==
    (visitPc = "done" /\ config.autoInjectTracer /\ RewrittenCount(result) > 0)
        => CountKind(result, "tracerVar") = 1

(***************************************************************************)
(* SpecFiles: two files transformed under one configuration, the steps of  *)
(* the two traversals taken in any order.                                  *)
(***************************************************************************)
\* the closure returned by createTracingTransformer makes its own
\* transformContext at each call and hands it to the visitor it creates: a
\* traversal that resumes works on its own context (variant: on the one
\* of the traversal that ran last)
ContextOfTraversal_Shared(own, last) == last

ContextOfTraversal(own, last) == own

\* the whole of one call of the per-file closure, on its own
TransformAlone(file, cfg) ==
    IF ~shouldTransformFile(file.fileName, cfg).value THEN file.statements
    ELSE LET context(st) ==
                 [sourceFile |-> file.fileName,
                  hasTracerImport |-> hasExistingTracerImport(file),
                  className |-> IF st.name = NoName THEN UnknownClass ELSE st.name]
             visitClassDeclaration(st) ==
                 [st EXCEPT !.members =
                     [i \in DOMAIN st.members |->
                         memberVisitor(st.members[i], context(st), cfg)]]
             visited ==
                 [i \in DOMAIN file.statements |->
                     IF file.statements[i].kind = "class"
                     THEN visitClassDeclaration(file.statements[i])
                     ELSE file.statements[i]]
         IN  IF cfg.autoInjectTracer /\ ~hasExistingTracerImport(file)
             THEN createTracerImports \o visited
             ELSE visited

DriverFiles ==
    {[fileName |-> <<"a", "/", "s", ".", "t", "s">>,
      statements |-> <<Statement("class", <<"A">>, <<M_m, M_n>>)>>],
     [fileName |-> <<"b", "/", "s", ".", "t", "s">>,
      statements |-> <<Statement("otelImport", NoName, <<>>),
                       Statement("class", <<"B">>, <<M_m>>)>>],
     [fileName |-> <<"a", "/", "c", ".", "j", "s">>,
      statements |-> <<Statement("class", <<"A">>, <<M_m>>)>>],
     [fileName |-> <<"b", "/", "t", ".", "t", "s">>,
      statements |-> <<Statement("class", <<"B">>, <<M_n>>),
                       Statement("class", <<"A">>, <<M_toString, M_m>>)>>]}

\* a traversal that has not begun
NotStarted(file) ==
    [sourceFile |-> file,
     transformContext |-> [sourceFile |-> <<>>, hasTracerImport |-> FALSE, className |-> NoName],
     visitPc |-> "start",
     stmtIdx |-> 1,
     memberIdx |-> 1,
     previousClassName |-> NoName,
     newMembers |-> <<>>,
     transformedStatements |-> <<>>,
     result |-> <<>>]

FilesInit ==
    /\ sourceFile \in DriverFiles
    /\ config \in {c \in VisitConfigs : c.maxMethodsPerFile = DEFAULT_CONFIG.maxMethodsPerFile}
    /\ transformContext = NotStarted(sourceFile).transformContext
    /\ visitPc = "start"
    /\ stmtIdx = 1
    /\ memberIdx = 1
    /\ previousClassName = NoName
    /\ newMembers = <<>>
    /\ transformedStatements = <<>>
    /\ result = <<>>
    /\ input = sourceFile
    /\ pass = 1
    /\ suspended \in {NotStarted(f) : f \in DriverFiles}

\* the driver leaves the running traversal where it is and goes on with the
\* other one
SwitchFile ==
    /\ visitPc # "unused"
    /\ suspended # <<>>
    /\ sourceFile' = suspended.sourceFile
    /\ transformContext' = ContextOfTraversal(suspended.transformContext, transformContext)
    /\ visitPc' = suspended.visitPc
    /\ stmtIdx' = suspended.stmtIdx
    /\ memberIdx' = suspended.memberIdx
    /\ previousClassName' = suspended.previousClassName
    /\ newMembers' = suspended.newMembers
    /\ transformedStatements' = suspended.transformedStatements
    /\ result' = suspended.result
    /\ suspended' = [sourceFile |-> sourceFile,
                     transformContext |-> transformContext,
                     visitPc |-> visitPc,
                     stmtIdx |-> stmtIdx,
                     memberIdx |-> memberIdx,
                     previousClassName |-> previousClassName,
                     newMembers |-> newMembers,
                     transformedStatements |-> transformedStatements,
                     result |-> result]
    /\ UNCHANGED <<config, input, pass>>
    /\ UNCHANGED NotDriver

FilesNext ==
    \/ TransformSourceFile
    \/ VisitSourceFile
    \/ VisitOtherStatement
    \/ EnterClass
    \/ VisitMember
    \/ LeaveClass
    \/ FinishSourceFile
    \/ SwitchFile

InitFiles == FilesInit /\ RunIdle /\ MatchIdle /\ LoadIdle /\ UtilIdle

SpecFiles == InitFiles /\ [][FilesNext]_vars

\* C14: files transformed with one shared configuration, in any order or
\* interleaving, each get the output they get when transformed alone: the
\* class name, entry-point flag and file path a traversal reads are never
\* those set by the traversal of another file.
C14_FilesAreIndependent ==
    /\ visitPc = "done" => result = TransformAlone(sourceFile, config)
    /\ suspended.visitPc = "done" =>
          suspended.result = TransformAlone(suspended.sourceFile, config)
    /\ visitPc \in {"statements", "members"} =>
          /\ transformContext.sourceFile = sourceFile.fileName
          /\ transformContext.hasTracerImport = hasExistingTracerImport(sourceFile)
    /\ visitPc = "members" =>
          transformContext.className = CurrentStatement.name

C14_Witness ==
    /\ visitPc = "done"
    /\ suspended.visitPc = "done"
    /\ sourceFile # suspended.sourceFile
    /\ RewrittenCount(result) > 0
    /\ RewrittenCount(suspended.result) > 0
    /\ CountKind(result, "tracerVar") # CountKind(suspended.result, "tracerVar")
    /\ transformContext # suspended.transformContext

(***************************************************************************)
(* validation.ts, config-loader.ts: loadConfig.                            *)
(*                                                                         *)
(* A configuration value is [t, s, items, n]: t is what the value is       *)
(* ("absent": the key is not in the object; "undefined", "string",         *)
(* "number", "boolean", "array", "object"), s the characters of a string,  *)
(* items the elements of an array or the property values of an object, n   *)
(* a number (1 for true).  An element is [t, s, n].                        *)
(***************************************************************************)
JsValue(t, s, items, n) == [t |-> t, s |-> s, items |-> items, n |-> n]
JsAbsent == JsValue("absent", <<>>, <<>>, 0)
JsUndefined == JsValue("undefined", <<>>, <<>>, 0)
JsString(s) == JsValue("string", s, <<>>, 0)
JsNumber(n) == JsValue("number", <<>>, <<>>, n)
JsBoolean(b) == JsValue("boolean", <<>>, <<>>, IF b THEN 1 ELSE 0)
JsArray(items) == JsValue("array", <<>>, items, 0)
JsObject(items) == JsValue("object", <<>>, items, 0)

JsElement(t, s, n) == [t |-> t, s |-> s, n |-> n]
StringElement(s) == JsElement("string", s, 0)
NumberElement(n) == JsElement("number", <<>>, n)

StringArray(strings) == JsArray([i \in DOMAIN strings |-> StringElement(strings[i])])

\* ToBoolean
Truthy(v) ==
    CASE v.t \in {"absent", "undefined"} -> FALSE
      [] v.t = "string" -> v.s # <<>>
      [] v.t \in {"number", "boolean"} -> v.n # 0
      [] OTHER -> TRUE

WhiteSpace == {" ", "\t", "\n", "\r"}

\* s.trim() === ''
TrimIsEmpty(s) == \A i \in DOMAIN s : s[i] \in WhiteSpace

LogLevels ==
    {<<"n", "o", "n", "e">>, <<"e", "r", "r", "o", "r">>, <<"w", "a", "r", "n">>,
     <<"i", "n", "f", "o">>, <<"d", "e", "b", "u", "g">>}

ConfigKeys ==
    {"include", "exclude", "spanNamePrefix", "includeMethods", "excludeMethods",
     "maxMethodsPerFile", "logLevel", "commonAttributes", "debug",
     "instrumentPrivateMethods"}

\* DEFAULT_CONFIG as the object loadConfig spreads (the keys validateConfig reads)
DefaultValues ==
    [include |-> StringArray(DEFAULT_CONFIG.include),
     exclude |-> StringArray(DEFAULT_CONFIG.exclude),
     spanNamePrefix |-> JsString(DEFAULT_CONFIG.spanNamePrefix),
     includeMethods |-> JsAbsent,
     excludeMethods |-> StringArray(DEFAULT_CONFIG.excludeMethods),
     maxMethodsPerFile |-> JsNumber(DEFAULT_CONFIG.maxMethodsPerFile),
     logLevel |-> JsString(<<"w", "a", "r", "n">>),
     commonAttributes |-> JsAbsent,
     debug |-> JsBoolean(FALSE),
     instrumentPrivateMethods |-> JsBoolean(DEFAULT_CONFIG.instrumentPrivateMethods)]

\* { ...DEFAULT_CONFIG, ...userConfig }: a key of userConfig replaces the
\* default, also when its value is undefined
MergeConfig(user) ==
    [k \in ConfigKeys |-> IF user[k].t = "absent" THEN DefaultValues[k] ELSE user[k]]

\* the messages one check of validateConfig pushes
\* (bad[i] tells whether element i fails the test of the loop)
ElementErrors(bad, message) ==
    [i \in 1..Cardinality({j \in DOMAIN bad : bad[j]}) |-> message]

validateConfig(cfg) ==
    LET includeErrors ==
            IF ~Truthy(cfg.include) \/ cfg.include.t # "array" \/ Len(cfg.include.items) = 0
            THEN <<"include patterns are required and must be a non-empty array">>
            ELSE ElementErrors([i \in DOMAIN cfg.include.items |->
                                    \/ cfg.include.items[i].t # "string"
                                    \/ TrimIsEmpty(cfg.include.items[i].s)],
                               "Invalid include pattern")
        excludeErrors ==
            IF Truthy(cfg.exclude) /\ cfg.exclude.t # "array"
            THEN <<"exclude must be an array of strings">>
            ELSE IF Truthy(cfg.exclude)
            THEN ElementErrors([i \in DOMAIN cfg.exclude.items |->
                                    cfg.exclude.items[i].t # "string"],
                               "Invalid exclude pattern")
            ELSE <<>>
        prefixErrors ==
            IF Truthy(cfg.spanNamePrefix) /\ cfg.spanNamePrefix.t # "string"
            THEN <<"spanNamePrefix must be a string">>
            ELSE <<>>
        prefixWarnings ==
            IF Truthy(cfg.spanNamePrefix) /\ cfg.spanNamePrefix.t = "string"
               /\ TrimIsEmpty(cfg.spanNamePrefix.s)
            THEN <<"spanNamePrefix is empty, consider providing a meaningful prefix">>
            ELSE <<>>
        maxDefined == cfg.maxMethodsPerFile.t \notin {"absent", "undefined"}
        maxBad == cfg.maxMethodsPerFile.t # "number" \/ cfg.maxMethodsPerFile.n < 1
        maxErrors ==
            IF maxDefined /\ maxBad
            THEN <<"maxMethodsPerFile must be a positive number">>
            ELSE <<>>
        maxWarnings ==
            IF maxDefined /\ ~maxBad /\ cfg.maxMethodsPerFile.n > 1000
            THEN <<"maxMethodsPerFile is very high, this might impact performance">>
            ELSE <<>>
        logLevelErrors ==
            IF Truthy(cfg.logLevel)
               /\ ~(cfg.logLevel.t = "string" /\ cfg.logLevel.s \in LogLevels)
            THEN <<"logLevel must be one of: none, error, warn, info, debug">>
            ELSE <<>>
        excludeMethodsErrors ==
            IF Truthy(cfg.excludeMethods) /\ cfg.excludeMethods.t # "array"
            THEN <<"excludeMethods must be an array of strings">>
            ELSE <<>>
        includeMethodsErrors ==
            IF Truthy(cfg.includeMethods) /\ cfg.includeMethods.t # "array"
            THEN <<"includeMethods must be an array of strings">>
            ELSE <<>>
        attributesErrors ==
            IF Truthy(cfg.commonAttributes) /\ cfg.commonAttributes.t \notin {"object", "array"}
            THEN <<"commonAttributes must be an object">>
            ELSE IF Truthy(cfg.commonAttributes)
            THEN ElementErrors([i \in DOMAIN cfg.commonAttributes.items |->
                                    cfg.commonAttributes.items[i].t # "string"],
                               "commonAttributes values must be strings")
            ELSE <<>>
        errors == includeErrors \o excludeErrors \o prefixErrors \o maxErrors
                  \o logLevelErrors \o excludeMethodsErrors \o includeMethodsErrors
                  \o attributesErrors
    IN  [isValid |-> errors = <<>>,
         errors |-> errors,
         warnings |-> prefixWarnings \o maxWarnings]

(***************************************************************************)
(* SpecConfig: loadConfig applied to user configurations drawn from        *)
(* bounded sets.                                                           *)
(***************************************************************************)
Ts == <<"*", ".", "t", "s">>

UserValues ==
    [include |-> {JsAbsent, JsUndefined, JsArray(<<>>), StringArray(<<Ts>>),
                  StringArray(<<Ts, <<" ">>>>), JsArray(<<NumberElement(42)>>),
                  JsString(Ts)},
     exclude |-> {JsAbsent, JsArray(<<>>), StringArray(<<<<>>>>),
                  JsArray(<<NumberElement(42)>>), JsString(Ts)},
     spanNamePrefix |-> {JsAbsent, JsUndefined, JsString(<<>>), JsString(<<" ">>),
                         JsString(<<"p">>), JsNumber(7)},
     includeMethods |-> {JsAbsent, JsArray(<<>>), StringArray(<<<<"m">>>>),
                         JsArray(<<NumberElement(42)>>), JsString(<<"m">>)},
     excludeMethods |-> {JsAbsent, JsArray(<<StringElement(<<"m">>), NumberElement(42)>>),
                         JsString(<<"m">>)},
     maxMethodsPerFile |-> {JsAbsent, JsNumber(0), JsNumber(1001), JsString(<<"5">>)},
     logLevel |-> {JsAbsent, JsString(<<"d", "e", "b", "u", "g">>),
                   JsString(<<"v", "e", "r", "b", "o", "s", "e">>)},
     commonAttributes |-> {JsAbsent, JsObject(<<StringElement(<<"v">>)>>),
                           JsObject(<<NumberElement(1)>>)},
     debug |-> {JsAbsent, JsBoolean(TRUE)},
     instrumentPrivateMethods |-> {JsAbsent, JsBoolean(FALSE)}]

UserConfigs ==
    [include : UserValues.include,
     exclude : UserValues.exclude,
     spanNamePrefix : UserValues.spanNamePrefix,
     includeMethods : UserValues.includeMethods,
     excludeMethods : UserValues.excludeMethods,
     maxMethodsPerFile : UserValues.maxMethodsPerFile,
     logLevel : UserValues.logLevel,
     commonAttributes : UserValues.commonAttributes,
     debug : UserValues.debug,
     instrumentPrivateMethods : UserValues.instrumentPrivateMethods]

ConfigInit ==
    /\ userConfig \in UserConfigs
    /\ loadPc = "call"
    /\ loadResult = <<>>
    /\ logged = <<>>
    /\ loggerLevel = JsString(<<"w", "a", "r", "n">>)
    /\ config = <<>>

\* variant: the log level is set only when the configuration is valid
LoadConfig_LevelOnSuccess ==
    /\ loadPc = "call"
    /\ LET cfg        == MergeConfig(userConfig)
           validation == validateConfig(cfg)
       IN  IF ~validation.isValid
           THEN /\ logged' = <<"Invalid transformer configuration">>
                /\ loadPc' = "threw"
                /\ UNCHANGED <<loadResult, loggerLevel>>
           ELSE /\ logged' = validation.warnings
                /\ loadPc' = "returned"
                /\ loadResult' = cfg
                /\ loggerLevel' = IF Truthy(cfg.debug) THEN JsString(<<"d", "e", "b", "u", "g">>)
                                  ELSE IF Truthy(cfg.logLevel) THEN cfg.logLevel
                                  ELSE loggerLevel
    /\ UNCHANGED userConfig
    /\ UNCHANGED NotLoad

\* loadConfig: merge, set the log level, validate; throw CONFIG_INVALID or
\* log the warnings and return the merged configuration
LoadConfig ==
    /\ loadPc = "call"
    /\ LET cfg        == MergeConfig(userConfig)
           validation == validateConfig(cfg)
       IN  /\ loggerLevel' = IF Truthy(cfg.debug) THEN JsString(<<"d", "e", "b", "u", "g">>)
                             ELSE IF Truthy(cfg.logLevel) THEN cfg.logLevel
                             ELSE loggerLevel
           /\ IF ~validation.isValid
              THEN /\ logged' = <<"Invalid transformer configuration">>
                   /\ loadPc' = "threw"
                   /\ UNCHANGED loadResult
              ELSE /\ logged' = validation.warnings
                   /\ loadPc' = "returned"
                   /\ loadResult' = cfg
    /\ UNCHANGED userConfig
    /\ UNCHANGED NotLoad

ConfigNext == LoadConfig

InitConfig == ConfigInit /\ RunIdle /\ MatchIdle /\ VisitIdle /\ DriverIdle /\ UtilIdle

SpecConfig == InitConfig /\ [][ConfigNext]_vars

\* C15: every configuration loadConfig returns has a non-empty include
\* list and a non-empty spanNamePrefix; a merged configuration in which
\* either is missing or empty is rejected with CONFIG_INVALID.
C15_LoadedConfigHasIncludeAndPrefix ==
    loadPc = "returned" =>
        /\ loadResult.include.t = "array"
        /\ Len(loadResult.include.items) > 0
        /\ loadResult.spanNamePrefix.t = "string"
        /\ loadResult.spanNamePrefix.s # <<>>

IsNonEmptyString(e) == e.t = "string" /\ e.s # <<>>

\* C16: loadConfig rejects with CONFIG_INVALID every configuration with an
\* ill-typed pattern list: an include or exclude entry that is not a
\* non-empty string, or an includeMethods / excludeMethods value that is
\* present and is not a list of strings only.
C16_IllTypedPatternListsRejected ==
    LET cfg == MergeConfig(userConfig)
        badEntry(list) ==
            /\ list.t = "array"
            /\ \E i \in DOMAIN list.items : ~IsNonEmptyString(list.items[i])
        badMethodList(v) ==
            /\ v.t \notin {"absent", "undefined"}
            /\ ~(v.t = "array" /\ \A i \in DOMAIN v.items : v.items[i].t = "string")
    IN  (/\ loadPc # "call"
         /\ \/ badEntry(cfg.include)
            \/ badEntry(cfg.exclude)
            \/ badMethodList(cfg.includeMethods)
            \/ badMethodList(cfg.excludeMethods))
            => loadPc = "threw"

\* C21: when the user configuration does not set instrumentPrivateMethods,
\* loadConfig returns instrumentPrivateMethods = false, so a method whose
\* name begins with "_" is not instrumented under the loaded configuration.
C21_PrivateMethodsOffByDefault ==
    (loadPc = "returned" /\ userConfig.instrumentPrivateMethods.t = "absent") =>
        /\ loadResult.instrumentPrivateMethods = JsBoolean(FALSE)
        /\ shouldInstrumentMethod(<<"_", "p">>,
               [DEFAULT_CONFIG EXCEPT
                   !.instrumentPrivateMethods = Truthy(loadResult.instrumentPrivateMethods)])
               = FALSE

\* the level loadConfig hands to setLogLevel for a merged configuration,
\* or the level in force when it calls setLogLevel for neither key
LevelSetBy(cfg, current) ==
    IF Truthy(cfg.debug) THEN JsString(<<"d", "e", "b", "u", "g">>)
    ELSE IF Truthy(cfg.logLevel) THEN cfg.logLevel
    ELSE current

\* C26 (as stated): a loadConfig call that fails with CONFIG_INVALID leaves
\* the logger level as it was before the call.
C26_FailedLoadKeepsLevel ==
    loadPc = "threw" => loggerLevel = JsString(<<"w", "a", "r", "n">>)

\* C26 (amended): loadConfig sets the logger level from the merged
\* configuration before it validates it, so after the call, whether it
\* returned or failed with CONFIG_INVALID, the level is "debug" when debug
\* is truthy, otherwise the merged logLevel when that is truthy.
C26_LevelSetBeforeValidation ==
    loadPc \in {"returned", "threw"} =>
        loggerLevel = LevelSetBy(MergeConfig(userConfig), JsString(<<"w", "a", "r", "n">>))

C26_Witness ==
    /\ loadPc = "threw"
    /\ userConfig.debug.t = "absent"
    /\ loggerLevel = JsString(<<"v", "e", "r", "b", "o", "s", "e">>)

(***************************************************************************)
(* SpecGlob: one pattern against one candidate, for every pattern and      *)
(* candidate over small alphabets.                                         *)
(***************************************************************************)
MaxGlobLen == 4

\* the examples of the documentation
ServicePattern == <<"*", "*", "/", "*", ".", "t", "s">>
ServicePaths ==
    {<<"a", "/", "b", ".", "t", "s">>, <<"b", ".", "t", "s">>,
     <<"a", "\\", "b", ".", "t", "s">>, <<"b", ".", "t", "s", "x">>,
     <<"B", ".", "T", "S">>}
CreatePattern == <<"c", "r", "e", "a", "t", "e", "*">>
GetUserPattern == <<"g", "e", "t", "?", "s", "e", "r">>
ExampleNames ==
    {<<"c", "r", "e", "a", "t", "e">>, <<"c", "r", "e", "a", "t", "e", "U", "s", "e", "r">>,
     <<"g", "e", "t", "U", "s", "e", "r">>, <<"g", "e", "t", "s", "e", "r">>,
     <<"g", "e", "t", "U", "s", "e", "r", "D", "a", "t", "a">>,
     <<"C", "r", "e", "a", "t", "e">>}

\* pattern and candidate sets, by family
FileFamilies ==
    {[patterns |-> SeqsUpTo({"a", "/", "*"}, MaxGlobLen) \cup {ServicePattern},
      paths    |-> SeqsUpTo({"a", "A", "/", "\\"}, MaxGlobLen - 1) \cup ServicePaths],
     [patterns |-> SeqsUpTo({"a", "*", "?", ".", "+", "(", "|"}, MaxGlobLen - 2),
      paths    |-> SeqsUpTo({"a", "?", ".", "+"}, MaxGlobLen - 2)]}

MethodFamilies ==
    {[patterns |-> SeqsUpTo({"a", "A", "*", "?"}, MaxGlobLen - 1)
                   \cup {CreatePattern, GetUserPattern},
      names    |-> SeqsUpTo({"a", "A"}, MaxGlobLen - 1) \cup ExampleNames],
     [patterns |-> SeqsUpTo({"a", "*", "?", ".", "+", "(", "|"}, MaxGlobLen - 2),
      names    |-> SeqsUpTo({"a", ".", "+", "("}, MaxGlobLen - 2)]}

GlobInit ==
    /\ \/ /\ matchPc = "file"
          /\ \E fam \in FileFamilies :
                /\ config \in {[DEFAULT_CONFIG EXCEPT !.include = <<p>>, !.exclude = <<>>] :
                                   p \in fam.patterns}
                /\ fileName \in fam.paths
          /\ methodName = <<>>
       \/ /\ matchPc = "method"
          /\ \E fam \in MethodFamilies :
                /\ config \in {[DEFAULT_CONFIG EXCEPT !.includeMethods = <<p>>,
                                                      !.excludeMethods = <<>>] :
                                   p \in fam.patterns}
                /\ methodName \in fam.names
          /\ fileName = <<>>
    /\ matchResult = Returned(FALSE)

InitGlob == GlobInit /\ RunIdle /\ VisitIdle /\ DriverIdle /\ LoadIdle /\ UtilIdle

SpecGlob == InitGlob /\ [][MatchNext]_vars

OverAlphabet(s, chars) == \A i \in DOMAIN s : s[i] \in chars

RECURSIVE FileGlobAccepts(_, _)
\* the reference glob for file paths: `**` stands for any characters, `*`
\* for any characters but `/`, every other character for itself
FileGlobAccepts(p, s) ==
    IF p = <<>> THEN s = <<>>
    ELSE IF StartsWith(p, <<"*", "*">>)
         THEN \E k \in 0..Len(s) : FileGlobAccepts(Drop(p, 2), Drop(s, k))
    ELSE IF Head(p) = "*"
         THEN \E k \in 0..Len(s) :
                 /\ \A l \in 1..k : s[l] # "/"
                 /\ FileGlobAccepts(Tail(p), Drop(s, k))
    ELSE s # <<>> /\ Head(s) = Head(p) /\ FileGlobAccepts(Tail(p), Tail(s))

\* `\` of the path is read as `/`; a leading `**/` may stand for nothing
ReferenceFileGlob(pattern, path) ==
    LET s == [i \in DOMAIN path |-> IF path[i] = "\\" THEN "/" ELSE path[i]]
    IN  \/ FileGlobAccepts(pattern, s)
        \/ StartsWith(pattern, <<"*", "*", "/">>) /\ FileGlobAccepts(Drop(pattern, 3), s)

RECURSIVE ReferenceMethodGlob(_, _)
\* the reference glob for method names: `*` stands for any characters, `?`
\* for exactly one, every other character for itself
ReferenceMethodGlob(p, s) ==
    IF p = <<>> THEN s = <<>>
    ELSE IF Head(p) = "*"
         THEN \E k \in 0..Len(s) : ReferenceMethodGlob(Tail(p), Drop(s, k))
    ELSE IF Head(p) = "?"
         THEN s # <<>> /\ ReferenceMethodGlob(Tail(p), Tail(s))
    ELSE s # <<>> /\ Head(s) = Head(p) /\ ReferenceMethodGlob(Tail(p), Tail(s))

FileGlobChars == {"a", "b", "t", "s", "/", ".", "*"}
MethodGlobChars == {"a", "A", "c", "r", "e", "t", "g", "s", "*", "?"}

\* C17: for file-path patterns over the alphabet of letters, `.`, `/` and
\* `*` the matcher agrees with the reference glob on every path: `*` is
\* zero or more characters other than `/`, `**` zero or more characters,
\* a leading `**/` may match nothing, `\` of the path is read as `/`, the
\* match is case-sensitive and covers the whole path.
C17_FileGlobAgreesWithReference ==
    (matchPc = "fileDone" /\ OverAlphabet(config.include[1], FileGlobChars))
        => matchResult = Returned(ReferenceFileGlob(config.include[1], fileName))

C17_Witness ==
    /\ matchPc = "fileDone"
    /\ config.include[1] = ServicePattern
    /\ fileName = <<"b", ".", "t", "s">>
    /\ matchResult = Returned(TRUE)

\* C18: for method-name patterns `*` matches zero or more characters, `?`
\* exactly one, a pattern with neither matches the identical name only,
\* and the whole name must match, case-sensitively.
C18_MethodGlobAgreesWithReference ==
    (matchPc = "methodDone" /\ OverAlphabet(config.includeMethods[1], MethodGlobChars))
        => /\ matchResult = Returned(ReferenceMethodGlob(config.includeMethods[1], methodName))
           /\ (~Includes(config.includeMethods[1], "*") /\ ~Includes(config.includeMethods[1], "?"))
                 => matchResult.value = (methodName = config.includeMethods[1])

C18_Witness ==
    /\ matchPc = "methodDone"
    /\ config.includeMethods[1] = GetUserPattern
    /\ methodName = <<"g", "e", "t", "U", "s", "e", "r">>
    /\ matchResult = Returned(TRUE)

\* C19: in both kinds of pattern every character that is no wildcard of
\* that kind matches only itself: the result is that of the reference glob
\* also for patterns that hold `?` (file paths), `.`, `+`, `(` or `|`.
C19_NonWildcardsMatchThemselves ==
    /\ matchPc = "fileDone"
          => matchResult = Returned(ReferenceFileGlob(config.include[1], fileName))
    /\ matchPc = "methodDone"
          => matchResult = Returned(ReferenceMethodGlob(config.includeMethods[1], methodName))

(***************************************************************************)
(* SpecProxy: one method call made through the proxy of traceService       *)
(* (src/traceService.ts).  The specification uses the variables of         *)
(* SpecRun: method describes the call ([shape, attrs, ret]: what           *)
(* config.methodAttributes does and what the target method does), pc is    *)
(* the control point, ip the next element of the async iterable, outcome   *)
(* what the caller of the proxied method observes, completion what the     *)
(* consumer of the returned async iterable observes at its end.            *)
(***************************************************************************)
MaxItems == 2

AsyncIterableObject == "AsyncIterable"

\* what fn.apply(target, args) does: returns val, throws val, returns a
\* promise that fulfils with val, rejects with val or fulfils with an async
\* iterable, or returns an async iterable; an async iterable produces
\* items and then completes (fails = "-") or fails with the error fails
TargetResult(kind, val, items, fails) ==
    [kind |-> kind, val |-> val, items |-> items, fails |-> fails]

TargetResults ==
    {TargetResult("value", v, <<>>, "-") : v \in Values}
    \cup {TargetResult("throws", e, <<>>, "-") : e \in Errors}
    \cup {TargetResult("promiseValue", v, <<>>, "-") : v \in Values}
    \cup {TargetResult("promiseRejects", e, <<>>, "-") : e \in Errors}
    \cup {TargetResult(k, AsyncIterableObject, items, f) :
             k \in {"asyncIterable", "promiseIterable"},
             items \in SeqsUpTo(Values, MaxItems),
             f \in {"-", "E1"}}

ProxiedCalls ==
    {[shape |-> "proxied", attrs |-> a, ret |-> r] :
        a \in {"none", "returns", "throws"}, r \in TargetResults}

ProxyInit ==
    /\ method \in ProxiedCalls
    /\ pc = "idle"
    /\ ip = 1
    /\ innerIp = 1
    /\ detached = FALSE
    /\ err = "-"
    /\ completion = NoCompletion
    /\ outcome = NoCompletion
    /\ received = <<>>
    /\ leaked = <<>>
    /\ aborted = FALSE
    /\ events = <<>>
    /\ recorded = <<>>
    /\ config = <<>>

\* recordError(span, err, ...): the exception is recorded and the status
\* set to ERROR; recordError itself never throws
RecordErrorEvents(e) == <<Event("recordException", e), Event("error", "-")>>

\* wrapped: tracer.startActiveSpan(spanName, {...}, (span) => {...}) starts
\* the span and calls the callback
WrappedCall ==
    /\ pc = "idle"
    /\ method.shape = "proxied"
    /\ events' = Append(events, Event("start", "-"))
    /\ pc' = "callback"
    /\ UNCHANGED <<method, ip, innerIp, detached, err, completion, outcome,
                   received, leaked, aborted, recorded>>
    /\ UNCHANGED NotRun

\* the try block of the callback: the attributes are set (methodAttributes
\* is a function of the caller and may throw), the target method is called
\* and the callback returns according to what the target returned
WrappedCallback ==
    /\ pc = "callback"
    /\ LET ret == method.ret
       IN  IF method.attrs = "throws"
           THEN /\ err' = "E2"
                /\ pc' = "catch"
                /\ UNCHANGED <<events, outcome>>
           ELSE IF ret.kind = "throws"
           THEN /\ err' = ret.val
                /\ pc' = "catch"
                /\ UNCHANGED <<events, outcome>>
           ELSE IF ret.kind \in {"promiseValue", "promiseRejects", "promiseIterable"}
           THEN /\ pc' = "pending"
                /\ UNCHANGED <<events, outcome, err>>
           ELSE IF ret.kind = "asyncIterable"
           THEN /\ pc' = "suspendedStart"
                /\ outcome' = Completion("return", AsyncIterableObject)
                /\ UNCHANGED <<events, err>>
           ELSE /\ events' = events \o <<Event("ok", "-"), Event("end", "-")>>
                /\ outcome' = Completion("return", ret.val)
                /\ pc' = "done"
                /\ UNCHANGED err
    /\ UNCHANGED <<method, ip, innerIp, detached, completion,
                   received, leaked, aborted, recorded>>
    /\ UNCHANGED NotRun

\* catch (err) { recordError(span, err, ...); span.end(); throw err; }
WrappedCatch ==
    /\ pc = "catch"
    /\ method.shape = "proxied"
    /\ recorded' = Append(recorded, err)
    /\ events' = events \o RecordErrorEvents(err) \o <<Event("end", "-")>>
    /\ outcome' = Completion("throw", err)
    /\ pc' = "done"
    /\ UNCHANGED <<method, ip, innerIp, detached, err, completion,
                   received, leaked, aborted>>
    /\ UNCHANGED NotRun

\* ret.then((res) => {...}): the promise of the target fulfils
ThenHandler ==
    /\ pc = "pending"
    /\ method.ret.kind \in {"promiseValue", "promiseIterable"}
    /\ IF method.ret.kind = "promiseIterable"
       THEN /\ pc' = "suspendedStart"
            /\ outcome' = Completion("return", AsyncIterableObject)
            /\ UNCHANGED events
       ELSE /\ events' = events \o <<Event("ok", "-"), Event("end", "-")>>
            /\ outcome' = Completion("return", method.ret.val)
            /\ pc' = "done"
    /\ UNCHANGED <<method, ip, innerIp, detached, err, completion,
                   received, leaked, aborted, recorded>>
    /\ UNCHANGED NotRun

\* .catch((err) => { recordError(span, err, ...); span.end(); throw err; }):
\* the promise of the target rejects
CatchHandler ==
    /\ pc = "pending"
    /\ method.ret.kind = "promiseRejects"
    /\ err' = method.ret.val
    /\ recorded' = Append(recorded, method.ret.val)
    /\ events' = events \o RecordErrorEvents(method.ret.val) \o <<Event("end", "-")>>
    /\ outcome' = Completion("throw", method.ret.val)
    /\ pc' = "done"
    /\ UNCHANGED <<method, ip, innerIp, detached, completion,
                   received, leaked, aborted>>
    /\ UNCHANGED NotRun

\* next() on the generator object made by wrapAsyncIterable: its body runs
\* to the next yield, or to its end through catch and finally
WrapAsyncIterableNext ==
    /\ pc \in {"suspendedStart", "suspendedYield"}
    /\ IF ip <= Len(method.ret.items)
       THEN /\ received' = Append(received, method.ret.items[ip])
            /\ ip' = ip + 1
            /\ pc' = "suspendedYield"
            /\ UNCHANGED <<events, recorded, completion, err>>
       ELSE IF method.ret.fails = "-"
       THEN /\ events' = events \o <<Event("ok", "-"), Event("end", "-")>>
            /\ completion' = Completion("return", Undefined)
            /\ pc' = "done"
            /\ UNCHANGED <<received, ip, recorded, err>>
       ELSE /\ err' = method.ret.fails
            /\ recorded' = Append(recorded, method.ret.fails)
            /\ events' = events \o RecordErrorEvents(method.ret.fails) \o <<Event("end", "-")>>
            /\ completion' = Completion("throw", method.ret.fails)
            /\ pc' = "done"
            /\ UNCHANGED <<received, ip>>
    /\ UNCHANGED <<method, innerIp, detached, outcome, leaked, aborted>>
    /\ UNCHANGED NotRun

\* return() on the generator object made by wrapAsyncIterable (the consumer
\* aborts the iteration): a generator suspended at a yield resumes with a
\* return completion and runs its finally block; a generator that was never
\* started completes without running any of its body
WrapAsyncIterableReturn ==
    /\ pc \in {"suspendedStart", "suspendedYield"}
    /\ events' = IF pc = "suspendedYield" THEN Append(events, Event("end", "-")) ELSE events
    /\ aborted' = TRUE
    /\ completion' = Completion("return", Undefined)
    /\ pc' = "done"
    /\ UNCHANGED <<method, ip, innerIp, detached, err, outcome,
                   received, leaked, recorded>>
    /\ UNCHANGED NotRun

ProxyNext ==
    \/ WrappedCall
    \/ WrappedCallback
    \/ WrappedCatch
    \/ ThenHandler
    \/ CatchHandler
    \/ WrapAsyncIterableNext
    \/ WrapAsyncIterableReturn

InitProxy == ProxyInit /\ MatchIdle /\ VisitIdle /\ DriverIdle /\ LoadIdle /\ UtilIdle

SpecProxy == InitProxy /\ [][ProxyNext]_vars

\* C28: for every method call made through a traceService proxy the span
\* is ended at most once, and exactly once when the method has returned
\* synchronously, thrown, its promise has settled, or the iteration of its
\* async iterable has completed, failed or been aborted by the consumer; a
\* thrown or rejected error reaches the caller unchanged.
C28_ProxySpanEndedExactlyOnce ==
    /\ Count("start") <= 1
    /\ Count("end") <= 1
    /\ pc = "done" => Count("end") = 1
    /\ (pc = "done" /\ method.attrs # "throws" /\ method.ret.kind \in {"throws", "promiseRejects"})
          => outcome = Completion("throw", method.ret.val)
    /\ (pc = "done" /\ ~aborted /\ method.attrs # "throws" /\ method.ret.fails # "-")
          => completion = Completion("throw", method.ret.fails)

(***************************************************************************)
(* utils/serialization.ts and utils/error-handling.ts.  A JSON value is    *)
(* [t, n, s, props]: t is "number", "string" or "object", n the number, s  *)
(* the characters of the string, props the properties of the object in     *)
(* insertion order, each [key, value].  The values are trees: no object    *)
(* is referenced twice, so the circular-reference tracker never fires.     *)
(***************************************************************************)
JsonValue(t, n, s, props) == [t |-> t, n |-> n, s |-> s, props |-> props]
JsonNumber(n) == JsonValue("number", n, <<>>, <<>>)
JsonString(s) == JsonValue("string", 0, s, <<>>)
JsonObject(props) == JsonValue("object", 0, <<>>, props)
Property(key, value) == [key |-> key, value |-> value]

SENSITIVE_PATTERNS ==
    <<<<"p", "a", "s", "s", "w", "o", "r", "d">>,
      <<"t", "o", "k", "e", "n">>,
      <<"s", "e", "c", "r", "e", "t">>,
      <<"k", "e", "y">>,
      <<"a", "u", "t", "h">>,
      <<"c", "r", "e", "d", "e", "n", "t", "i", "a", "l">>,
      <<"b", "e", "a", "r", "e", "r">>,
      <<"c", "o", "o", "k", "i", "e">>>>

TruncatedMarker == <<".", ".", ".", "[", "T", "R", "U", "N", "C", "A", "T", "E", "D", "]">>
MaxDepthMarker == <<"[", "M", "a", "x", " ", "D", "e", "p", "t", "h", " ", "E", "x", "c", "e", "e", "d", "e", "d", "]">>

DEFAULT_OPTIONS ==
    [maxLength |-> 1000,
     maxDepth |-> 3,
     sensitivePatterns |-> SENSITIVE_PATTERNS,
     redactSensitive |-> TRUE,
     redactionValue |-> <<"[", "R", "E", "D", "A", "C", "T", "E", "D", "]">>]

\* an option of an options object: <<>> when the key is absent, <<v>> when
\* it is set to v
OptionOr(option, default) == IF option = <<>> THEN default ELSE option[1]

\* pattern.test(fieldName) for a pattern /text/i and a lower-case field name
Contains(s, text) ==
    \E i \in 1..(Len(s) - Len(text) + 1) : SubSeq(s, i, i + Len(text) - 1) = text

isSensitiveField(fieldName, patterns) ==
    \E i \in DOMAIN patterns : Contains(fieldName, patterns[i])

handlePrimitiveValue(value) ==
    IF value.t = "string"
    THEN IF Len(value.s) > 500
         THEN JsonString(SubSeq(value.s, 1, 500) \o TruncatedMarker)
         ELSE value
    ELSE value

\* the plain objects of the model are handed back for JSON.stringify to descend into
handleObjectValue(value) == value

createReplacer(key, value, options, currentDepth) ==
    IF currentDepth > options.maxDepth THEN JsonString(MaxDepthMarker)
    ELSE IF options.redactSensitive /\ key # <<>>
            /\ isSensitiveField(key, options.sensitivePatterns)
    THEN JsonString(options.redactionValue)
    ELSE IF value.t # "object" THEN handlePrimitiveValue(value)
    ELSE handleObjectValue(value)

\* JSON text of a string without characters to escape, and of a digit
QuoteJSONString(s) == <<"\"">> \o s \o <<"\"">>
NumberToString(n) == <<(<<"0", "1", "2", "3", "4", "5", "6", "7", "8", "9">>)[n + 1]>>

RECURSIVE SerializeJSONProperty(_, _, _), SerializeJSONObject(_, _)
\* JSON.stringify(value, (key, val) => createReplacer(key, val, circularRefs, opts, 0)):
\* the replacer is called for the root (key '') and for every property, and
\* what it returns is serialized, its properties through the replacer again
SerializeJSONProperty(key, value, opts) ==
    LET replaced == createReplacer(key, value, opts, 0)
    IN  CASE replaced.t = "number" -> NumberToString(replaced.n)
          [] replaced.t = "string" -> QuoteJSONString(replaced.s)
          [] OTHER -> <<"{">> \o SerializeJSONObject(replaced.props, opts) \o <<"}">>

SerializeJSONObject(props, opts) ==
    IF props = <<>> THEN <<>>
    ELSE QuoteJSONString(Head(props).key) \o <<":">>
         \o SerializeJSONProperty(Head(props).key, Head(props).value, opts)
         \o (IF Tail(props) = <<>> THEN <<>> ELSE <<",">>)
         \o SerializeJSONObject(Tail(props), opts)

safeStringify(value, options) ==
    LET opts == [DEFAULT_OPTIONS EXCEPT
                    !.maxDepth = OptionOr(options.maxDepth, DEFAULT_OPTIONS.maxDepth)]
        serialized == SerializeJSONProperty(<<>>, value, opts)
    IN  IF Len(serialized) > opts.maxLength
        THEN SubSeq(serialized, 1, opts.maxLength) \o TruncatedMarker
        ELSE serialized

DEFAULT_ERROR_OPTIONS ==
    [maxMessageLength |-> 500, maxStackLength |-> 1000, includeStack |-> TRUE]

\* str.substring(0, end): a negative end is taken as 0
Substring0(str, end) == SubSeq(str, 1, IF end < 0 THEN 0 ELSE end)

truncateString(str, maxLength) ==
    IF str = <<>> \/ Len(str) <= maxLength THEN str
    ELSE Substring0(str, maxLength - 12) \o TruncatedMarker

\* analyzeError of an Error object with the given message and stack
analyzeError(message, stack) ==
    [message |-> IF message = <<>> THEN <<"U", "n", "k", "n", "o", "w", "n", " ", "e", "r", "r", "o", "r">> ELSE message,
     stack |-> stack]

\* recordError: the status message and the attributes error.message and
\* error.stack it writes on the span (error.stack is <<>> when not written)
recordError(message, stack, options) ==
    LET opts == [maxMessageLength |-> OptionOr(options.maxMessageLength,
                                               DEFAULT_ERROR_OPTIONS.maxMessageLength),
                 maxStackLength |-> OptionOr(options.maxStackLength,
                                             DEFAULT_ERROR_OPTIONS.maxStackLength),
                 includeStack |-> DEFAULT_ERROR_OPTIONS.includeStack]
        errorInfo == analyzeError(message, stack)
    IN  <<truncateString(errorInfo.message, opts.maxMessageLength),
          truncateString(errorInfo.message, opts.maxMessageLength),
          IF opts.includeStack /\ errorInfo.stack # <<>>
          THEN truncateString(errorInfo.stack, opts.maxStackLength)
          ELSE <<>>>>

(***************************************************************************)
(* SpecUtil: one call of safeStringify, truncateString or recordError on   *)
(* arguments drawn from bounded sets.                                      *)
(***************************************************************************)
MaxNest == 3
MaxDepthOption == 2
MaxStringLen == 16
MaxLimit == 14

RECURSIVE JsonValues(_)
\* the values nested at most k levels deep
JsonValues(k) ==
    LET leaves == {JsonNumber(1), JsonString(<<"s">>)}
    IN  IF k = 0 THEN leaves
        ELSE leaves
             \cup {JsonObject(<<Property(<<"a">>, v)>>) : v \in JsonValues(k - 1)}
             \cup {JsonObject(<<Property(<<"a">>, v), Property(<<"b">>, JsonNumber(1))>>) :
                      v \in JsonValues(k - 1)}
             \cup {JsonObject(<<Property(<<"k", "e", "y">>, v)>>) : v \in JsonValues(k - 1)}

Xs(n) == [i \in 1..n |-> "x"]

NoOptions == [maxDepth |-> <<>>, maxMessageLength |-> <<>>, maxStackLength |-> <<>>]

UtilCall(fn, value, strings, limit, options) ==
    [fn |-> fn, value |-> value, strings |-> strings, limit |-> limit, options |-> options]

UtilCalls ==
    {UtilCall("safeStringify", v, <<>>, 0, [NoOptions EXCEPT !.maxDepth = <<d>>]) :
        v \in JsonValues(MaxNest), d \in 0..MaxDepthOption}
    \cup
    {UtilCall("truncateString", JsonNumber(0), <<Xs(k)>>, n, NoOptions) :
        k \in 0..MaxStringLen, n \in 0..MaxLimit}
    \cup
    {UtilCall("recordError", JsonNumber(0), <<Xs(k), stack>>, 0,
              [NoOptions EXCEPT !.maxMessageLength = m, !.maxStackLength = s]) :
        k \in 0..MaxStringLen, stack \in {<<>>, Xs(MaxStringLen)},
        m \in {<<>>, <<MaxLimit>>}, s \in {<<>>, <<MaxLimit>>}}

UtilInit ==
    /\ utilArgs \in UtilCalls
    /\ utilPc = "call"
    /\ utilResult = <<>>
    /\ config = <<>>

CallSafeStringify ==
    /\ utilPc = "call"
    /\ utilArgs.fn = "safeStringify"
    /\ utilResult' = <<safeStringify(utilArgs.value, utilArgs.options)>>
    /\ utilPc' = "returned"
    /\ UNCHANGED utilArgs
    /\ UNCHANGED NotUtil

CallTruncateString ==
    /\ utilPc = "call"
    /\ utilArgs.fn = "truncateString"
    /\ utilResult' = <<truncateString(utilArgs.strings[1], utilArgs.limit)>>
    /\ utilPc' = "returned"
    /\ UNCHANGED utilArgs
    /\ UNCHANGED NotUtil

CallRecordError ==
    /\ utilPc = "call"
    /\ utilArgs.fn = "recordError"
    /\ utilResult' = recordError(utilArgs.strings[1], utilArgs.strings[2], utilArgs.options)
    /\ utilPc' = "returned"
    /\ UNCHANGED utilArgs
    /\ UNCHANGED NotUtil

UtilNext ==
    \/ CallSafeStringify
    \/ CallTruncateString
    \/ CallRecordError

InitUtil == UtilInit /\ RunIdle /\ MatchIdle /\ VisitIdle /\ DriverIdle /\ LoadIdle

SpecUtil == InitUtil /\ [][UtilNext]_vars

RECURSIVE DepthThreadedProperty(_, _, _, _), DepthThreadedObject(_, _, _)
\* the serialization in which the replacer is told the level of the value
\* it is called for: the root is at level 0, its properties at level 1, ...
DepthThreadedProperty(key, value, opts, level) ==
    LET replaced == createReplacer(key, value, opts, level)
    IN  CASE replaced.t = "number" -> NumberToString(replaced.n)
          [] replaced.t = "string" -> QuoteJSONString(replaced.s)
          [] OTHER -> <<"{">> \o DepthThreadedObject(replaced.props, opts, level + 1) \o <<"}">>

DepthThreadedObject(props, opts, level) ==
    IF props = <<>> THEN <<>>
    ELSE QuoteJSONString(Head(props).key) \o <<":">>
         \o DepthThreadedProperty(Head(props).key, Head(props).value, opts, level)
         \o (IF Tail(props) = <<>> THEN <<>> ELSE <<",">>)
         \o DepthThreadedObject(Tail(props), opts, level)

\* C29: safeStringify enforces maxDepth: every value nested more than
\* maxDepth levels below the root is replaced in the output by the marker
\* [Max Depth Exceeded], for every input and every maxDepth >= 0.
C29_MaxDepthEnforced ==
    (utilPc = "returned" /\ utilArgs.fn = "safeStringify") =>
        utilResult[1] =
            DepthThreadedProperty(<<>>, utilArgs.value,
                                  [DEFAULT_OPTIONS EXCEPT !.maxDepth = utilArgs.options.maxDepth[1]],
                                  0)

\* C30: for every string s and every limit n >= 0, truncateString(s, n) is
\* at most n characters long; hence the status message and the
\* error.message attribute written by recordError never exceed
\* maxMessageLength characters and error.stack never exceeds maxStackLength.
C30_TruncatedToLimit ==
    /\ (utilPc = "returned" /\ utilArgs.fn = "truncateString")
          => Len(utilResult[1]) <= utilArgs.limit
    /\ (utilPc = "returned" /\ utilArgs.fn = "recordError") =>
          LET maxMessageLength == OptionOr(utilArgs.options.maxMessageLength,
                                           DEFAULT_ERROR_OPTIONS.maxMessageLength)
              maxStackLength == OptionOr(utilArgs.options.maxStackLength,
                                         DEFAULT_ERROR_OPTIONS.maxStackLength)
          IN  /\ Len(utilResult[1]) <= maxMessageLength
              /\ Len(utilResult[2]) <= maxMessageLength
              /\ Len(utilResult[3]) <= maxStackLength

====
